---- MODULE Spec2Model ----
(***************************************************************************)
(* A model of the ad-campaign digital twin: the shared base engine         *)
(* (base_simulator.py), the search engine (google/google.py), the reach    *)
(* engine (facebook/facebook.py), the network engine (linkedin/           *)
(* linkedin.py) and the aggregator (ad_simulator.py).                      *)
(*                                                                         *)
(* Conventions.                                                            *)
(*  - Money is fixed point: one unit is 1/10000 of a currency unit         *)
(*    (Money == 10000 is 1.00).  A float product that is no whole number   *)
(*    of units is rounded down to the unit.                                *)
(*  - int(x) of the source is truncation of the exact quotient (IntDiv).   *)
(*  - random.uniform / random.random / random.randint are choices from     *)
(*    the finite draw sets named *Draws below (the ends of the ranges).    *)
(*  - A dict key that may be absent is a field holding <<>> (absent) or    *)
(*    <<v>> (present); Get is dict.get(key, default).                      *)
(*  - An id string is the sequence of the pieces its f-string joins.       *)
(*  - Ratios (ctr, cpa, roas, ...) are kept exact: <<n, d>> in lowest      *)
(*    terms, Zero for the literal 0, Inf for float('inf').                 *)
(*  - facebook.py line 245 ends its for statement with a brace; the       *)
(*    statement is read with the colon the loop body below it implies.     *)
(***************************************************************************)
EXTENDS Integers, Sequences, FiniteSets, TLC

VARIABLES
    campaigns,   \* campaigns[e]: self.campaigns of engine e (the hierarchy)
    results,     \* results[e]:   self.results of engine e
    run,         \* run[e]:       position and locals of run_simulation on engine e
    audiences,   \* audiences[e]: self.audiences of engine e
    history,     \* self.historical_data["campaigns"] of the reach engine (ids)
    agg,         \* AdSimulator.results: per platform total_metrics and combined
    sel,         \* the engine whose call is in progress
    ret,         \* outcome of the last creation call: "none", "created", "raised"
    err,         \* the exception of the last management call, "none" without one
    api_access,  \* GoogleAdsSimulator.api_access: quota, operations used, reset date
    rate_limits, \* LinkedInAdsSimulator.rate_limits: the call counters and resets
    oauth,       \* LinkedInAdsSimulator.oauth: expires_at of the access token
    now,         \* datetime.now(), in minutes since the engines were constructed
    threads,     \* run_simulation calls of other threads: waiting and returned
    sims,        \* the simulation of POST /simulations: its task and its files
    batch        \* the async_batch_update call: its updates and its result

apivars == <<err, api_access, rate_limits, oauth, now>>
vars == <<campaigns, audiences, results, run, history, agg, sel, ret, apivars, threads, sims,
          batch>>

Engines == {"google", "facebook", "linkedin"}

(***************************************************************************)
(* Bounds of the model.                                                    *)
(***************************************************************************)
MaxDays == 2
MaxCampaigns == 2
MaxUnits == 2
MaxLeaves == 2
MaxAggDays == 1
MaxPaused == 1
MaxFailed == 1
MaxOps == 2
MaxCalls == 2
MaxApiUnits == 1
MaxThreads == 3
MaxServedReach == 100000

(***************************************************************************)
(* Arithmetic helpers.                                                     *)
(***************************************************************************)
\* One currency unit, in money units (10^4).
Money == 100 * 100

Min(a, b) == IF a <= b THEN a ELSE b
Max(a, b) == IF a >= b THEN a ELSE b

\* int(n / d) for d > 0: Python's int() truncates toward zero.
IntDiv(n, d) == IF n >= 0 THEN n \div d ELSE -((-n) \div d)

RECURSIVE Gcd(_, _)
Gcd(a, b) == IF b = 0 THEN a ELSE Gcd(b, a % b)

Zero == <<0, 1>>
Inf == <<1, 0>>
\* The float n / d for n >= 0, d > 0, kept exact.
Frac(n, d) == LET g == Gcd(n, d) IN <<n \div g, d \div g>>

UnguardedRatio(n, d) == IF d > 0 THEN Frac(n, d) ELSE Inf

\* `n / d if d > 0 else 0`, the guarded division used for every stored ratio.
SafeRatio(n, d) == IF d > 0 THEN Frac(n, d) ELSE Zero

Get(opt, default) == IF opt = <<>> THEN default ELSE opt[1]

RECURSIVE SumSeq(_)
SumSeq(s) == IF s = <<>> THEN 0 ELSE Head(s) + SumSeq(Tail(s))

ZeroMetrics == [impressions |-> 0, clicks |-> 0, conversions |-> 0, spend |-> 0]

AddMetrics(a, b) ==
    [impressions |-> a.impressions + b.impressions,
     clicks      |-> a.clicks + b.clicks,
     conversions |-> a.conversions + b.conversions,
     spend       |-> a.spend + b.spend]

(***************************************************************************)
(* Ids.  f"{platform}-{n}" and f"{parent}-{kind}-{n}": the pieces joined   *)
(* by the f-string, the number rendered in decimal digits.                 *)
(***************************************************************************)
RECURSIVE Digits(_)
Digits(n) == IF n < 10 THEN <<n>> ELSE Digits(n \div 10) \o <<n % 10>>

PlatformName(e) ==
    CASE e = "google"   -> "GoogleAds"
      [] e = "facebook" -> "MetaAds"
      [] e = "linkedin" -> "LinkedInAds"

CampaignId(e, n) == <<PlatformName(e), "-">> \o Digits(n)
SiblingId(parent, kind, n) == <<kind, "-">> \o Digits(n)

ChildId(parent, kind, n) == parent \o <<"-", kind, "-">> \o Digits(n)

(***************************************************************************)
(* BaseAdSimulator                                                         *)
(***************************************************************************)
\* create_campaign: the id is numbered by the current length of self.campaigns.
NewCampaign(e, cs, data) ==
    [id |-> CampaignId(e, Len(cs) + 1),
     data |-> data,
     status |-> "active",
     metrics |-> ZeroMetrics,
     has_units |-> FALSE,
     units |-> <<>>]

create_campaign(e, cs, data) == Append(cs, NewCampaign(e, cs, data))

\* The results envelope run_simulation writes before the platform routine runs.
FreshResults(e, days) ==
    [empty |-> FALSE,
     platform |-> PlatformName(e),
     period |-> days,
     campaigns |-> <<>>,
     total_metrics |-> [impressions |-> 0, clicks |-> 0, conversions |-> 0,
                        spend |-> 0, ctr |-> Zero, cpa |-> Zero],
     optimizations |-> <<>>]

\* self.results = {} of __init__: no envelope yet.
EmptyResults == [empty |-> TRUE]

\* The tail of run_simulation: ctr and cpa are overwritten only when the
\* denominator is positive.
BaseAggregate(res) ==
    LET t == res.total_metrics
        t1 == IF t.impressions > 0
              THEN [t EXCEPT !.ctr = Frac(t.clicks, t.impressions)] ELSE t
        t2 == IF t.conversions > 0
              THEN [t1 EXCEPT !.cpa = Frac(t.spend, t.conversions)] ELSE t1
    IN  [res EXCEPT !.total_metrics = t2]

\* results["campaigns"] is a dict in insertion order: a sequence of entries.
HasEntry(res, cid) == \E i \in 1..Len(res.campaigns) : res.campaigns[i].id = cid
Entry(res, cid) ==
    res.campaigns[CHOOSE i \in 1..Len(res.campaigns) : res.campaigns[i].id = cid]
PutEntry(res, entry) ==
    IF HasEntry(res, entry.id)
    THEN [res EXCEPT !.campaigns =
             [i \in 1..Len(res.campaigns) |->
                 IF res.campaigns[i].id = entry.id THEN entry ELSE res.campaigns[i]]]
    ELSE [res EXCEPT !.campaigns = Append(res.campaigns, entry)]

IdleRun == [pc |-> "idle"]

\* An engine instance as one value: hierarchy, results and run position.
Eng(e) == [c |-> campaigns[e], r |-> results[e], p |-> run[e]]

\* Index of the campaign with the given id in self.campaigns, 0 when none.
FindCampaign(cs, cid) ==
    IF \E i \in 1..Len(cs) : cs[i].id = cid
    THEN CHOOSE i \in 1..Len(cs) : cs[i].id = cid
    ELSE 0

(***************************************************************************)
(* GoogleAdsSimulator: hierarchy                                           *)
(***************************************************************************)
\* self.ad_formats[...]["ctr_multiplier"], in tenths; an unknown format
\* falls back to "search".
GCtrMultiplier(fmt) ==
    CASE fmt = "display"  -> 3
      [] fmt = "video"    -> 5
      [] fmt = "shopping" -> 12
      [] OTHER            -> 10

\* random.randint(1, 10) in add_keyword: the quality score drawn at creation.
QualityDraws == {1, 5, 10}
\* random.random() > 0.1 in create_ad.
GApprovalDraws == {"approved", "under_review"}

\* create_ad_group: appended to the campaign, numbered by the campaign's count.
create_ad_group(cs, i, data) ==
    LET c == cs[i]
        ag == [id |-> ChildId(c.id, "ag", Len(c.units) + 1),
               data |-> data,
               ads |-> <<>>,
               keywords |-> <<>>,
               status |-> "active"]
    IN  [cs EXCEPT ![i] = [c EXCEPT !.has_units = TRUE,
                                    !.units = Append(c.units, ag)]]

\* The (campaign, ad group) position of the ad group with the given id,
\* <<0, 0>> when there is none: the nested search of add_keyword / create_ad.
FindUnit(cs, uid) ==
    IF \E i \in 1..Len(cs) : \E j \in 1..Len(cs[i].units) : cs[i].units[j].id = uid
    THEN CHOOSE p \in {<<i, j>> : i \in 1..Len(cs), j \in 1..MaxUnits + 1} :
             p[2] <= Len(cs[p[1]].units) /\ cs[p[1]].units[p[2]].id = uid
    ELSE <<0, 0>>

\* add_keyword: the keyword with its quality score drawn at creation.
add_keyword(cs, i, j, match_type, quality) ==
    LET ag == cs[i].units[j]
        kw == [id |-> ChildId(ag.id, "kw", Len(ag.keywords) + 1),
               match_type |-> match_type,
               bid |-> Money,
               quality_score |-> quality,
               status |-> "active"]
    IN  [cs EXCEPT ![i].units[j].keywords = Append(ag.keywords, kw)]

\* create_ad (search engine): the ad with its approval drawn at creation.
g_create_ad(cs, i, j, approval) ==
    LET ag == cs[i].units[j]
        ad == [id |-> ChildId(ag.id, "ad", Len(ag.ads) + 1),
               status |-> "active",
               approval_status |-> approval]
    IN  [cs EXCEPT ![i].units[j].ads = Append(ag.ads, ad)]

(***************************************************************************)
(* GoogleAdsSimulator._run_platform_simulation                             *)
(***************************************************************************)
GMatchMultiplier(mt) ==
    CASE mt = "phrase" -> 2
      [] mt = "broad"  -> 4
      [] OTHER         -> 1

\* campaign["data"].get("daily_budget", 100.0)
GDailyBudget(c) == Get(c.data.daily_budget, 100 * Money)
\* campaign_budget = daily_budget * days
GCampaignBudget(c, days) == GDailyBudget(c) * days

\* _calculate_actual_cpc, with competitor_ad_rank given in halves.
GActualCpc(rank2, quality, bid) ==
    IF quality = 0 THEN bid
    ELSE IntDiv(Money * rank2, 2 * quality) + Money \div 100

\* random.uniform(10, 50) for impressions; uniform(1, 10) and uniform(0.5, 2.0)
\* (in halves) for the competitor's ad rank.
GImprDraws == {10, 50}
GRank1Draws == {1, 10}
GRank2Draws == {1, 4}

\* The unscaled metrics of one keyword on one day (lines 362-393).
GKeywordRaw(kw, fmt, u, r1, r2) ==
    LET q == kw.quality_score
        imps == q * GMatchMultiplier(kw.match_type) * u
        clicks == IntDiv(imps * 5 * q * GCtrMultiplier(fmt), 100 * 10 * 10)
        cpc == GActualCpc(r1 * r2, q, kw.bid)
    IN  [impressions |-> imps, clicks |-> clicks,
         conversions |-> IntDiv(clicks * 2 * q, 100 * 10),
         spend |-> clicks * cpc]

GUncapped(m, daily_spend, budget) == m

\* "Apply daily budget limits" (lines 395-400): clicks, conversions and spend
\* are scaled to the budget left; impressions are not.
GApplyDailyBudget(m, daily_spend, budget) ==
    IF daily_spend + m.spend > budget
    THEN [impressions |-> m.impressions,
          clicks |-> IntDiv(m.clicks * (budget - daily_spend), m.spend),
          conversions |-> IntDiv(m.conversions * (budget - daily_spend), m.spend),
          spend |-> budget - daily_spend]
    ELSE m

\* "Stop if we've exceeded the daily budget" (line 409): leaves the keyword loop.
GDailyStop(daily_spend, budget) == daily_spend >= budget

\* "Stop if we've exceeded the campaign budget" (line 419): leaves the day loop.
GCampaignStop(campaign_spend, c, days) == campaign_spend >= GCampaignBudget(c, days)

\* A run_simulation that would go on with the envelope it finds.
GStartKeeping(st, days) ==
    [st EXCEPT !.r = IF st.r.empty THEN FreshResults("google", days) ELSE st.r,
               !.p = [pc |-> "campaign", days |-> days, ci |-> 1, day |-> 0,
                      agi |-> 1, kwi |-> 1, daily |-> ZeroMetrics,
                      camp |-> ZeroMetrics, total |-> ZeroMetrics]]

\* run_simulation up to the call of the platform routine, and the routine's
\* own first lines (324-327).
GStart(st, days) ==
    [st EXCEPT !.r = FreshResults("google", days),
               !.p = [pc |-> "campaign", days |-> days, ci |-> 1, day |-> 0,
                      agi |-> 1, kwi |-> 1, daily |-> ZeroMetrics,
                      camp |-> ZeroMetrics, total |-> ZeroMetrics]]

\* Top of `for campaign in self.campaigns` (lines 329-342).
GCampaign(st) ==
    LET p == st.p IN
    IF p.ci > Len(st.c) THEN [st EXCEPT !.p.pc = "finish"]
    ELSE IF st.c[p.ci].status # "active" THEN [st EXCEPT !.p.ci = p.ci + 1]
    ELSE [st EXCEPT !.p.pc = "day", !.p.day = 0, !.p.camp = ZeroMetrics]

\* Top of `for day in range(days)` (lines 343-348).
GDay(st) ==
    LET p == st.p IN
    IF p.day >= p.days THEN [st EXCEPT !.p.pc = "store"]
    ELSE [st EXCEPT !.p.pc = "adgroup", !.p.agi = 1, !.p.kwi = 1,
                    !.p.daily = ZeroMetrics]

\* Top of `for ad_group in campaign["ad_groups"]` (lines 351-358).
GAdGroup(st) ==
    LET p == st.p
        c == st.c[p.ci]
    IN  IF ~c.has_units \/ p.agi > Len(c.units) THEN [st EXCEPT !.p.pc = "dayend"]
        ELSE IF c.units[p.agi].status # "active" THEN [st EXCEPT !.p.agi = p.agi + 1]
        ELSE [st EXCEPT !.p.pc = "kw", !.p.kwi = 1]

\* One pass of `for keyword in ad_group["keywords"]` (lines 361-410).
GKeyword(st, u, r1, r2) ==
    LET p == st.p
        c == st.c[p.ci]
        ag == c.units[p.agi]
    IN  IF p.kwi > Len(ag.keywords)
        THEN [st EXCEPT !.p.pc = "adgroup", !.p.agi = p.agi + 1]
        ELSE
          LET fmt == Get(ag.data.ad_format, "search")
              m == GApplyDailyBudget(GKeywordRaw(ag.keywords[p.kwi], fmt, u, r1, r2),
                                     p.daily.spend, GDailyBudget(c))
              daily == AddMetrics(p.daily, m)
          IN  IF GDailyStop(daily.spend, GDailyBudget(c))
              THEN [st EXCEPT !.p.daily = daily, !.p.pc = "adgroup",
                              !.p.agi = p.agi + 1]
              ELSE [st EXCEPT !.p.daily = daily, !.p.kwi = p.kwi + 1]

\* "Accumulate campaign stats" and the campaign-budget stop (lines 412-420).
GDayEnd(st) ==
    LET p == st.p
        camp == AddMetrics(p.camp, p.daily)
    IN  IF GCampaignStop(camp.spend, st.c[p.ci], p.days)
        THEN [st EXCEPT !.p.camp = camp, !.p.pc = "store"]
        ELSE [st EXCEPT !.p.camp = camp, !.p.pc = "day", !.p.day = p.day + 1]

\* conv_value default of the roas line (line 430).
GConvValue(c) == Get(c.data.conv_value, 10)

\* "Store campaign results" and "Accumulate total stats" (lines 422-437).
GStore(st) ==
    LET p == st.p
        c == st.c[p.ci]
        m == p.camp
        entry == [id |-> c.id,
                  impressions |-> m.impressions, clicks |-> m.clicks,
                  conversions |-> m.conversions, spend |-> m.spend,
                  ctr |-> SafeRatio(m.clicks, m.impressions),
                  cpa |-> SafeRatio(m.spend, m.conversions),
                  roas |-> SafeRatio(m.conversions * GConvValue(c) * Money, m.spend)]
    IN  [st EXCEPT !.r = PutEntry(st.r, entry),
                   !.p.total = AddMetrics(p.total, m),
                   !.p.ci = p.ci + 1, !.p.pc = "campaign"]

\* "Update total metrics" (lines 439-445), then the tail of run_simulation.
GFinish(st) ==
    LET t == st.p.total
        tm == [impressions |-> t.impressions, clicks |-> t.clicks,
               conversions |-> t.conversions, spend |-> t.spend,
               ctr |-> SafeRatio(t.clicks, t.impressions),
               cpa |-> SafeRatio(t.spend, t.conversions)]
    IN  [st EXCEPT !.r = BaseAggregate([st.r EXCEPT !.total_metrics = tm]),
                   !.p = [st.p EXCEPT !.pc = "done"]]

(***************************************************************************)
(* FacebookAdsSimulator: hierarchy and audiences                           *)
(***************************************************************************)
\* self.placement_factors: reach_factor and ctr_factor in tenths, cpm_base in
\* tenths of a currency unit.
FPlacementTable ==
    [feed |-> [reach |-> 10, ctr |-> 10, cpm |-> 75, platform |-> "facebook"],
     marketplace |-> [reach |-> 5, ctr |-> 12, cpm |-> 55, platform |-> "facebook"],
     right_column |-> [reach |-> 4, ctr |-> 6, cpm |-> 35, platform |-> "facebook"],
     instagram_feed |-> [reach |-> 9, ctr |-> 11, cpm |-> 90, platform |-> "instagram"],
     instagram_reels |-> [reach |-> 12, ctr |-> 14, cpm |-> 110, platform |-> "instagram"],
     whatsapp_click_to_chat |-> [reach |-> 5, ctr |-> 16, cpm |-> 70, platform |-> "whatsapp"]]

\* self.placement_factors.get(placement, self.placement_factors["feed"])
FPlacement(pl) ==
    IF pl \in DOMAIN FPlacementTable THEN FPlacementTable[pl] ELSE FPlacementTable["feed"]
\* self.placement_factors.get(placement, {"platform": "facebook"})["platform"]
FPlacementPlatform(pl) ==
    IF pl \in DOMAIN FPlacementTable THEN FPlacementTable[pl].platform ELSE "facebook"

FPlatforms == {"facebook", "instagram", "whatsapp"}

\* define_audience: upsert by name; ctr_base and conversion_rate in thousandths.
define_audience(auds, name, ctr_base, conversion_rate) ==
    LET a == [name |-> name, ctr_base |-> ctr_base, conversion_rate |-> conversion_rate]
    IN  IF \E i \in 1..Len(auds) : auds[i].name = name
        THEN [i \in 1..Len(auds) |-> IF auds[i].name = name THEN a ELSE auds[i]]
        ELSE Append(auds, a)

\* self.audiences.get(audience_name, {... "ctr_base": 0.02, "conversion_rate": 0.01 ...})
FAudience(auds, name) ==
    IF \E i \in 1..Len(auds) : auds[i].name = name
    THEN auds[CHOOSE i \in 1..Len(auds) : auds[i].name = name]
    ELSE [name |-> name, ctr_base |-> 20, conversion_rate |-> 10]

\* create_ad_set: appended to the campaign, numbered by the campaign's count.
create_ad_set(cs, i, data) ==
    LET c == cs[i]
        a == [id |-> ChildId(c.id, "as", Len(c.units) + 1),
              data |-> data,
              ads |-> <<>>,
              status |-> "active",
              metrics |-> ZeroMetrics]
    IN  [cs EXCEPT ![i] = [c EXCEPT !.has_units = TRUE,
                                    !.units = Append(c.units, a)]]

\* random.randint(1, 10) and random.random() > 0.1 in create_ad.
RelevanceDraws == {1, 10}
FReviewDraws == {"approved", "pending_review"}

\* create_ad (reach engine): relevance and review status drawn at creation.
f_create_ad(cs, i, j, relevance, review) ==
    LET a == cs[i].units[j]
        ad == [id |-> ChildId(a.id, "ad", Len(a.ads) + 1),
               status |-> "active",
               review_status |-> review,
               relevance_score |-> relevance,
               metrics |-> ZeroMetrics]
    IN  [cs EXCEPT ![i].units[j].ads = Append(a.ads, ad)]

(***************************************************************************)
(* FacebookAdsSimulator._run_platform_simulation                           *)
(***************************************************************************)
\* _calculate_audience_reach: 1,000,000 * age * gender * location * interest,
\* each factor a fraction: min(span/50, 1), 1/2 or 1, min(n/5, 1),
\* max(0.1, 1 - 0.1 n).  The product of the denominators is 50 * 2 * 5 * 10.
FBaseReach == 1000000
FAgeNum(t) == Min(Get(t.age_max, 65) - Get(t.age_min, 18), 50)
FGenderNum(t) == IF t.gender \in {"male", "female"} THEN 1 ELSE 2
FLocationNum(t) == Min(t.locations, 5)
FInterestNum(t) == Max(1, 10 - t.interests)
FNoTargeting == [age_min |-> <<>>, age_max |-> <<>>, gender |-> "all",
                 locations |-> 0, interests |-> 0]
FAudienceReach(ad_set_data) ==
    LET t == Get(ad_set_data.targeting, FNoTargeting)
    IN  IntDiv((FBaseReach \div (50 * 2 * 5 * 10))
                 * FAgeNum(t) * FGenderNum(t) * FLocationNum(t) * FInterestNum(t), 1)

\* campaign["data"].get("budget", 1000.0)
FCampaignBudget(c) == Get(c.data.budget, 1000 * Money)
\* ad_set_data.get("budget", campaign_budget / len(campaign["ad_sets"]))
FAdSetBudget(c, a) == Get(a.data.budget, FCampaignBudget(c) \div Len(c.units))

\* placements: the default, and the fallback for an empty list (lines 365-371).
FPlacements(ad_set_data) ==
    LET pls == Get(ad_set_data.placements, <<"feed">>)
    IN  IF pls = <<>> THEN <<"feed">> ELSE pls

\* conversion_rate_multipliers.get(campaign_objective, 0.5), in tenths.
FObjectiveMultiplier(obj) ==
    CASE obj = "CONVERSIONS"     -> 10
      [] obj = "TRAFFIC"         -> 5
      [] obj = "ENGAGEMENT"      -> 3
      [] obj = "VIDEO_VIEWS"     -> 2
      [] obj = "BRAND_AWARENESS" -> 1
      [] OTHER                   -> 5

\* x * num / den truncated, the fraction reduced first.
MulFrac(x, num, den) ==
    LET g == Gcd(num, den) IN IntDiv(x * (num \div g), den \div g)

\* random.uniform(0.8, 1.2), 1 + uniform(-0.2, 0.2), 1 + uniform(-0.3, 0.3)
\* and 1 + uniform(-0.2, 0.2), each in tenths.
FDailyFactorDraws == {8, 12}
FImprVarDraws == {10}
FCtrVarDraws == {7, 13}
FCpmVarDraws == {8, 12}

\* The unscaled impressions, clicks and spend of one (ad, placement, day)
\* (lines 395-412).
FDailyRaw(reach, pl, aud, relevance, df, iv, cv, mv) ==
    LET daily_reach == IntDiv(reach * pl.reach * df, 30 * 10 * 10)
        imps == IntDiv(daily_reach * iv, 10)
        clicks == MulFrac(imps, aud.ctr_base * pl.ctr * relevance * cv,
                          1000 * 10 * 10 * 10)
        spend == IntDiv(imps * pl.cpm * (5 + relevance) * mv,
                        (1000 * 10 * 10 * 10) \div Money)
    IN  [impressions |-> imps, clicks |-> clicks, spend |-> spend]

\* "Apply budget constraints" (lines 414-419): impressions, clicks and spend
\* are scaled to the budget the ad set has left.
FApplyBudget(m, ad_set_spend, budget) ==
    IF ad_set_spend + m.spend > budget
    THEN [impressions |-> IntDiv(m.impressions * (budget - ad_set_spend), m.spend),
          clicks |-> IntDiv(m.clicks * (budget - ad_set_spend), m.spend),
          spend |-> budget - ad_set_spend]
    ELSE m

\* daily_conversions (lines 421-432), computed from the scaled clicks.
FConversions(clicks, aud, obj, relevance) ==
    MulFrac(clicks, aud.conversion_rate * FObjectiveMultiplier(obj) * relevance,
            1000 * 10 * 10)

\* "Stop if budget is exhausted" (line 392): leaves the day loop.
FBudgetStop(ad_set_spend, budget) == ad_set_spend >= budget

\* "Skip inactive or unapproved ads" (line 377).
FAdServes(ad) == ad.status = "active" /\ ad.review_status = "approved"

\* The weekday of start_date = datetime.now() - timedelta(days=days).
FWeekdayDraws == {0, 5}

FStart(st, days, weekday) ==
    [st EXCEPT !.r = FreshResults("facebook", days),
               !.p = [pc |-> "campaign", days |-> days, weekday |-> weekday,
                      ci |-> 1, si |-> 1,
                      ai |-> 1, pi |-> 1, day |-> 0, aset |-> ZeroMetrics,
                      camp |-> ZeroMetrics, total |-> ZeroMetrics]]

\* Top of `for campaign in self.campaigns` (lines 324-338).
FCampaign(st) ==
    LET p == st.p IN
    IF p.ci > Len(st.c) THEN [st EXCEPT !.p.pc = "finish"]
    ELSE IF st.c[p.ci].status # "active" THEN [st EXCEPT !.p.ci = p.ci + 1]
    ELSE [st EXCEPT !.p.pc = "adset", !.p.si = 1, !.p.camp = ZeroMetrics]

\* Top of `for ad_set in campaign["ad_sets"]` (lines 339-372).
FAdSet(st) ==
    LET p == st.p
        c == st.c[p.ci]
    IN  IF ~c.has_units \/ p.si > Len(c.units) THEN [st EXCEPT !.p.pc = "store"]
        ELSE IF c.units[p.si].status # "active" THEN [st EXCEPT !.p.si = p.si + 1]
        ELSE [st EXCEPT !.p.pc = "ad", !.p.ai = 1, !.p.aset = ZeroMetrics]

\* Top of `for ad in ad_set["ads"]` (lines 375-380).
FAd(st) ==
    LET p == st.p
        a == st.c[p.ci].units[p.si]
    IN  IF p.ai > Len(a.ads) THEN [st EXCEPT !.p.pc = "adsetend"]
        ELSE IF ~FAdServes(a.ads[p.ai]) THEN [st EXCEPT !.p.ai = p.ai + 1]
        ELSE [st EXCEPT !.p.pc = "placement", !.p.pi = 1]

\* Top of `for placement in placements` (lines 383-387).
FPlacementStep(st) ==
    LET p == st.p
        a == st.c[p.ci].units[p.si]
    IN  IF p.pi > Len(FPlacements(a.data))
        THEN [st EXCEPT !.p.pc = "ad", !.p.ai = p.ai + 1]
        ELSE [st EXCEPT !.p.pc = "dayloop", !.p.day = 0]

\* One pass of `for day in range(days)` (lines 390-444).
FDay(st, auds, df, iv, cv, mv) ==
    LET p == st.p
        c == st.c[p.ci]
        a == c.units[p.si]
        ad == a.ads[p.ai]
        budget == FAdSetBudget(c, a)
    IN  IF p.day >= p.days \/ FBudgetStop(p.aset.spend, budget)
        THEN [st EXCEPT !.p.pc = "placement", !.p.pi = p.pi + 1]
        ELSE
          LET aud == FAudience(auds, Get(a.data.audience, "default"))
              pl == FPlacement(FPlacements(a.data)[p.pi])
              m == FApplyBudget(FDailyRaw(FAudienceReach(a.data), pl, aud,
                                          ad.relevance_score, df, iv, cv, mv),
                                p.aset.spend, budget)
              d == [impressions |-> m.impressions, clicks |-> m.clicks,
                    conversions |-> FConversions(m.clicks, aud,
                                       Get(c.data.objective, "CONVERSIONS"),
                                       ad.relevance_score),
                    spend |-> m.spend]
          IN  [st EXCEPT !.p.aset = AddMetrics(p.aset, d),
                         !.p.day = p.day + 1,
                         !.c[p.ci].units[p.si].ads[p.ai].metrics =
                             AddMetrics(ad.metrics, d)]

\* An ad set end that would also write the spend back as the ad set's budget.
FAdSetEndBudgeting(st) ==
    LET p == st.p IN
    [st EXCEPT !.c[p.ci].units[p.si].metrics = p.aset,
               !.c[p.ci].units[p.si].data.budget = <<p.aset.spend>>,
               !.p.camp = AddMetrics(p.camp, p.aset),
               !.p.si = p.si + 1, !.p.pc = "adset"]

\* "Update ad set metrics" and "Accumulate campaign metrics" (lines 446-456).
FAdSetEnd(st) ==
    LET p == st.p IN
    [st EXCEPT !.c[p.ci].units[p.si].metrics = p.aset,
               !.p.camp = AddMetrics(p.camp, p.aset),
               !.p.si = p.si + 1, !.p.pc = "adset"]

\* Sum and scaling of exact ratios.
RAdd(a, b) == Frac(a[1] * b[2] + b[1] * a[2], a[2] * b[2])
RScale(a, k) == Frac(a[1] * k, a[2])
RDiv(a, k) == Frac(a[1], a[2] * k)

\* Number of the placements of the list that belong to the platform.
RECURSIVE FCountPlatform(_, _)
FCountPlatform(pls, platform) ==
    IF pls = <<>> THEN 0
    ELSE (IF FPlacementPlatform(Head(pls)) = platform THEN 1 ELSE 0)
         + FCountPlatform(Tail(pls), platform)

\* _calculate_platform_breakdown: each active ad set's impressions are split
\* evenly over its placements (no fallback for an empty list here) and the
\* shares are normalised when any impression was counted.
RECURSIVE FPlatformImpressions(_, _)
FPlatformImpressions(units, platform) ==
    IF units = <<>> THEN Zero
    ELSE LET a == Head(units)
             pls == Get(a.data.placements, <<"feed">>)
             rest == FPlatformImpressions(Tail(units), platform)
         IN  IF a.status # "active" \/ pls = <<>> THEN rest
             ELSE RAdd(rest, Frac(a.metrics.impressions * FCountPlatform(pls, platform),
                                  Len(pls)))

FPlatformBreakdown(c) ==
    LET raw == [pf \in FPlatforms |->
                   IF c.has_units THEN FPlatformImpressions(c.units, pf) ELSE Zero]
        total == RAdd(RAdd(raw["facebook"], raw["instagram"]), raw["whatsapp"])
    IN  IF total[1] > 0
        THEN [pf \in FPlatforms |-> Frac(raw[pf][1] * total[2], raw[pf][2] * total[1])]
        ELSE raw

\* Whether the window of _generate_time_series_data holds a weekend day.
FHasWeekend(weekday, days) == \E d \in 0..(days - 1) : (weekday + d) % 7 >= 5

\* _calculate_daily_platform_breakdown on a weekend day divides by the sum
\* of the facebook and whatsapp shares.
FTimeSeriesRaises(c, weekday, days) ==
    /\ FHasWeekend(weekday, days)
    /\ LET b == FPlatformBreakdown(c)
       IN  b["facebook"][1] = 0 /\ b["whatsapp"][1] = 0

\* Assumed value of a conversion in the roas lines.
FConvValue == 50

\* "Store campaign results" (lines 458-498).  The record is built before it
\* is assigned: when the time series raises, nothing is stored and the
\* exception leaves run_simulation.  Of the record, the base metrics, the
\* ratios and the platform breakdown are modelled.
FStore(st) ==
    LET p == st.p
        c == st.c[p.ci]
        m == p.camp
        entry == [id |-> c.id,
                  impressions |-> m.impressions, clicks |-> m.clicks,
                  conversions |-> m.conversions, spend |-> m.spend,
                  ctr |-> SafeRatio(m.clicks, m.impressions),
                  cpa |-> SafeRatio(m.spend, m.conversions),
                  roas |-> SafeRatio(m.conversions * FConvValue * Money, m.spend),
                  platform_breakdown |-> FPlatformBreakdown(c)]
    IN  IF FTimeSeriesRaises(c, p.weekday, p.days)
        THEN [st EXCEPT !.p.pc = "raised"]
        ELSE [st EXCEPT !.r = PutEntry(st.r, entry),
                        !.p.total = AddMetrics(p.total, m),
                        !.p.ci = p.ci + 1, !.p.pc = "campaign"]

\* _calculate_platform_percentage: reads results["total_metrics"], which at
\* the time of the call is still the record of the envelope.
FPlatformPercentage(res, platform) ==
    LET weighted ==
          [i \in 1..Len(res.campaigns) |->
              RScale(res.campaigns[i].platform_breakdown[platform],
                     res.campaigns[i].impressions)]
        RECURSIVE RSum(_)
        RSum(q) == IF q = <<>> THEN Zero ELSE RAdd(Head(q), RSum(Tail(q)))
    IN  IF res.total_metrics.impressions > 0
        THEN RDiv(RSum(weighted), res.total_metrics.impressions)
        ELSE Zero

\* _optimize_platform_allocation, the part that is stored: each campaign
\* record is split over the platforms by its breakdown and the ratios of
\* the platform sums are stored under platform_metrics.
FPlatformPerformance(res, platform, field) ==
    LET RECURSIVE Acc(_)
        Acc(i) == IF i = 0 THEN Zero
                  ELSE RAdd(Acc(i - 1),
                            RScale(res.campaigns[i].platform_breakdown[platform],
                                   res.campaigns[i][field]))
    IN  Acc(Len(res.campaigns))

RRatio(a, b) == Frac(a[1] * b[2], a[2] * b[1])

FPlatformMetrics(res, platform) ==
    LET imps == FPlatformPerformance(res, platform, "impressions")
        clicks == FPlatformPerformance(res, platform, "clicks")
        conv == FPlatformPerformance(res, platform, "conversions")
        spend == FPlatformPerformance(res, platform, "spend")
    IN  [ctr |-> IF imps[1] > 0 THEN RRatio(clicks, imps) ELSE Zero,
         cpa |-> IF conv[1] > 0 THEN RRatio(spend, conv) ELSE Inf,
         cpm |-> IF imps[1] > 0 THEN RScale(RRatio(spend, imps), 1000) ELSE Zero]

\* _run_ml_optimizations: nothing below three campaigns of historical data.
FMinHistory == 3
FRunMlOptimizations(res, hist) ==
    IF Cardinality(hist) < FMinHistory THEN res
    ELSE [res EXCEPT !.optimizations =
            <<[platform_allocation |->
                 [current_allocation |->
                      [pf \in FPlatforms |-> res.total_metrics.platform_summary[pf]],
                  platform_metrics |->
                      [pf \in FPlatforms |-> FPlatformMetrics(res, pf)]]]>>]

\* "Update total metrics" (lines 500-519), the optimizations (line 522) and
\* the tail of run_simulation.
FFinish(st, hist) ==
    LET t == st.p.total
        tm == [impressions |-> t.impressions, clicks |-> t.clicks,
               conversions |-> t.conversions, spend |-> t.spend,
               ctr |-> SafeRatio(t.clicks, t.impressions),
               cpa |-> SafeRatio(t.spend, t.conversions),
               roas |-> SafeRatio(t.conversions * FConvValue * Money, t.spend),
               platform_summary |->
                   [pf \in FPlatforms |-> FPlatformPercentage(st.r, pf)]]
    IN  [st EXCEPT !.r = BaseAggregate(
                            FRunMlOptimizations([st.r EXCEPT !.total_metrics = tm], hist)),
                   !.p = [st.p EXCEPT !.pc = "done"]]

(***************************************************************************)
(* LinkedInAdsSimulator: hierarchy                                         *)
(***************************************************************************)
\* self.ad_formats: ctr_multiplier in tenths, cpm_base in tenths of a
\* currency unit.
LFormatTable ==
    [single_image_sponsored_content |-> [ctr |-> 10, cpm |-> 85],
     carousel_sponsored_content |-> [ctr |-> 12, cpm |-> 95],
     video_sponsored_content |-> [ctr |-> 15, cpm |-> 100],
     message_ads |-> [ctr |-> 30, cpm |-> 250],
     text_ads |-> [ctr |-> 5, cpm |-> 50],
     dynamic_ads |-> [ctr |-> 8, cpm |-> 70],
     conversation_ads |-> [ctr |-> 25, cpm |-> 200],
     document_ads |-> [ctr |-> 9, cpm |-> 80],
     event_ads |-> [ctr |-> 11, cpm |-> 90]]

\* self.ad_formats.get(t, self.ad_formats["single_image_sponsored_content"])
LFormat(t) ==
    IF t \in DOMAIN LFormatTable THEN LFormatTable[t]
    ELSE LFormatTable["single_image_sponsored_content"]

\* _is_format_compatible_with_objective
LCompatible(format, objective) ==
    LET sponsored == {"single_image_sponsored_content", "carousel_sponsored_content",
                      "video_sponsored_content"}
    IN  CASE objective = "WEBSITE_VISITS" ->
               format \in sponsored \cup {"text_ads", "dynamic_ads", "event_ads"}
          [] objective = "LEAD_GENERATION" ->
               format \in sponsored \cup {"message_ads", "conversation_ads", "document_ads"}
          [] objective = "ENGAGEMENT" ->
               format \in sponsored \cup {"dynamic_ads", "conversation_ads",
                                          "document_ads", "event_ads"}
          [] objective = "VIDEO_VIEWS" -> format = "video_sponsored_content"
          [] objective \in {"BRAND_AWARENESS", "WEBSITE_CONVERSIONS"} ->
               format \in sponsored \cup {"dynamic_ads"}
          [] objective = "JOB_APPLICANTS" ->
               format \in {"single_image_sponsored_content", "job_ads"}
          [] OTHER -> FALSE

\* random.random() > 0.1 in _simulate_creative_review.
LReviewDraws == {"approved", "rejected"}

\* _validate_creative_specs: lengths and counts of the creative data against
\* the limits of its format; texts are kept by their length.
validate_creative_specs(d) ==
    LET f == Get(d.format, "single_image_sponsored_content")
        Over(field, limit) == d[field] # <<>> /\ d[field][1] > limit
    IN  CASE f = "single_image_sponsored_content" ->
               ~Over("intro_text", 600) /\ ~Over("headline", 70)
          [] f = "carousel_sponsored_content" ->
               /\ d.cards # <<>> =>
                     /\ Len(d.cards[1]) >= 2 /\ Len(d.cards[1]) <= 10
                     /\ \A k \in 1..Len(d.cards[1]) :
                           d.cards[1][k] = <<>> \/ d.cards[1][k][1] <= 45
               /\ ~Over("intro_text", 255)
          [] f = "video_sponsored_content" ->
               /\ d.video_duration # <<>> =>
                     d.video_duration[1] >= 3 /\ d.video_duration[1] <= 1800
               /\ ~Over("intro_text", 600)
          [] f = "message_ads" ->
               ~Over("subject_line", 60) /\ ~Over("message_text", 1500)
               /\ ~Over("cta_text", 20)
          [] OTHER -> TRUE

\* Creative data a caller may pass: nothing but the format, a headline at
\* and beyond the limit, carousels of one and two cards, a video too long,
\* a message ad.
LCreativeData(format) ==
    [format |-> format, intro_text |-> <<>>, headline |-> <<>>, cards |-> <<>>,
     video_duration |-> <<>>, subject_line |-> <<>>, message_text |-> <<>>,
     cta_text |-> <<>>]
LCreativeDraws ==
    {LCreativeData(<<>>),
     [LCreativeData(<<>>) EXCEPT !.headline = <<70>>],
     [LCreativeData(<<>>) EXCEPT !.headline = <<71>>],
     [LCreativeData(<<"carousel_sponsored_content">>) EXCEPT !.cards = <<<< <<>> >>>>],
     [LCreativeData(<<"carousel_sponsored_content">>) EXCEPT !.cards = <<<< <<45>>, <<>> >>>>],
     [LCreativeData(<<"video_sponsored_content">>) EXCEPT !.video_duration = <<1801>>],
     LCreativeData(<<"message_ads">>)}

\* create_creative once the rate limit and the token have passed: the list
\* of creatives is created before the format and the specifications are
\* checked; a creative that fails a check is not appended.
create_creative(cs, i, format, specs_ok, review) ==
    LET c == cs[i]
        cr == [id |-> ChildId(c.id, "cr", Len(c.units) + 1),
               format |-> format,
               status |-> "active",
               review_status |-> review]
    IN  IF LCompatible(Get(format, "single_image_sponsored_content"),
                       Get(c.data.objective, "WEBSITE_VISITS")) /\ specs_ok
        THEN [cs EXCEPT ![i] = [c EXCEPT !.has_units = TRUE,
                                         !.units = Append(c.units, cr)]]
        ELSE [cs EXCEPT ![i].has_units = TRUE]

(***************************************************************************)
(* LinkedInAdsSimulator._run_platform_simulation                           *)
(***************************************************************************)
\* len(self.targeting_dimensions)
LDimensions == 15
\* _targeting_match_score for n used dimensions, in 75ths:
\* 0.2 for none, else min(n/15 + min(n/5, 1) * 0.2, 1).
LTargetingScore(n) ==
    IF n = 0 THEN 15
    ELSE Min((75 \div LDimensions) * n + 3 * Min(n, 5), 75)

\* _calculate_bid_competitiveness, in tenths; the bid in tenths of a
\* currency unit.
LBidCompetitiveness(bid, t) ==
    LET avg == LFormat(t).cpm
    IN  CASE bid * 10 >= avg * 15 -> 10
          [] bid * 10 >= avg * 12 -> 9
          [] bid >= avg           -> 7
          [] bid * 10 >= avg * 8  -> 5
          [] OTHER                -> 3

LCampaignType(c) == Get(c.data.type, "single_image_sponsored_content")
LObjective(c) == Get(c.data.objective, "WEBSITE_VISITS")
\* campaign_data.get("daily_budget", 100.0)
LDailyBudget(c) == Get(c.data.daily_budget, 100 * Money)
\* campaign_data.get("total_budget", daily_budget * days)
LTotalBudget(c, days) == Get(c.data.total_budget, LDailyBudget(c) * days)
\* 0.7 under AUTO bidding, else by the bid amount (default 0.0).
LCompetitiveness(c) ==
    IF Get(c.data.bid_strategy, "AUTO") = "AUTO" THEN 7
    ELSE LBidCompetitiveness(Get(c.data.bid_amount, 0), LCampaignType(c))

\* active_creatives: the active and approved ones, in order.
LActiveCreatives(c) ==
    SelectSeq(c.units, LAMBDA cr : cr.status = "active" /\ cr.review_status = "approved")

\* conversion_rate_multipliers.get(objective, 0.03), in hundredths.
LObjectiveMultiplier(obj) ==
    CASE obj = "LEAD_GENERATION"     -> 8
      [] obj = "WEBSITE_CONVERSIONS" -> 5
      [] obj = "BRAND_AWARENESS"     -> 1
      [] obj = "VIDEO_VIEWS"         -> 2
      [] obj = "ENGAGEMENT"          -> 4
      [] obj = "JOB_APPLICANTS"      -> 6
      [] OTHER                       -> 3

\* random.uniform(0.8, 1.2), uniform(0.5, 1.0), uniform(0.8, 1.2) in tenths,
\* uniform(0.9, 1.1) in tenths, the weekday of datetime.now(), and
\* random.random() > 0.7 of the early stop.
LDailyVarDraws == {8, 12}
LQualityDraws == {5, 10}
LCtrVarDraws == {8, 12}
LCpmVarDraws == {9, 11}
LWeekdayDraws == {0, 5}

\* day_factor in tenths: weekends have less activity.
LDayFactor(weekday, day) == IF (weekday + day) % 7 < 5 THEN 10 ELSE 4

\* potential_impressions of a day (lines 535-539).
LPotentialImpressions(c, weekday, day, dv) ==
    IntDiv(IntDiv(1000 * LTargetingScore(c.data.targeting) * LCompetitiveness(c)
                    * LDayFactor(weekday, day), 75 * 10 * 10) * dv, 10)

\* The unscaled impressions, clicks and spend of one creative (lines 549-573).
LCreativeRaw(c, potential, n, q, cv, pv) ==
    LET ts == LTargetingScore(c.data.targeting)
        f == LFormat(LCampaignType(c))
        imps == IntDiv(potential * q, n * 10)
        clicks == MulFrac(imps, 4 * f.ctr * ts * q * cv, 1000 * 10 * 75 * 10 * 10)
        spend == IntDiv(imps * f.cpm * (150 + ts) * pv,
                        (1000 * 10 * 150 * 10) \div Money)
    IN  [impressions |-> imps, clicks |-> clicks, spend |-> spend]

\* remaining_budget (line 576): campaign_spend is the spend of the days
\* before this one.
LRemainingBudget(daily_budget, daily_spend, total_budget, campaign_spend) ==
    Min(daily_budget - daily_spend, total_budget - campaign_spend)

\* "Apply budget constraints" (lines 577-581).
LApplyBudget(m, remaining) ==
    IF m.spend > remaining
    THEN [impressions |-> IntDiv(m.impressions * remaining, m.spend),
          clicks |-> IntDiv(m.clicks * remaining, m.spend),
          spend |-> remaining]
    ELSE m

\* creative_conversions (lines 583-596).
LConversions(c, clicks, q) ==
    MulFrac(clicks, LObjectiveMultiplier(LObjective(c))
                      * LTargetingScore(c.data.targeting) * q,
            100 * 75 * 10)

\* "Stop if total budget is exhausted" (line 523) and "Skip if daily budget
\* is exhausted" (line 546).
LTotalStop(campaign_spend, total_budget) == campaign_spend >= total_budget
LDailyStop(daily_spend, daily_budget) == daily_spend >= daily_budget
\* daily_spend >= daily_budget * 0.99
LNearlySpent(daily_spend, daily_budget) == daily_spend * 100 >= daily_budget * 99

LStart(st, days, weekday) ==
    [st EXCEPT !.r = FreshResults("linkedin", days),
               !.p = [pc |-> "campaign", days |-> days, weekday |-> weekday,
                      ci |-> 1, day |-> 0, cri |-> 1, potential |-> 0,
                      daily |-> ZeroMetrics, camp |-> ZeroMetrics,
                      total |-> ZeroMetrics]]

\* Top of `for campaign in self.campaigns` (lines 472-517): inactive
\* campaigns and campaigns without an active approved creative are skipped.
LCampaign(st) ==
    LET p == st.p IN
    IF p.ci > Len(st.c) THEN [st EXCEPT !.p.pc = "finish"]
    ELSE IF \/ st.c[p.ci].status # "active"
            \/ ~st.c[p.ci].has_units
            \/ LActiveCreatives(st.c[p.ci]) = <<>>
         THEN [st EXCEPT !.p.ci = p.ci + 1]
         ELSE [st EXCEPT !.p.pc = "day", !.p.day = 0, !.p.camp = ZeroMetrics]

\* Top of `for day in range(days)` (lines 521-539).
LDay(st, dv) ==
    LET p == st.p
        c == st.c[p.ci]
    IN  IF p.day >= p.days \/ LTotalStop(p.camp.spend, LTotalBudget(c, p.days))
        THEN [st EXCEPT !.p.pc = "store"]
        ELSE [st EXCEPT !.p.pc = "creative", !.p.cri = 1, !.p.daily = ZeroMetrics,
                        !.p.potential = LPotentialImpressions(c, p.weekday, p.day, dv)]

\* One pass of `for creative in active_creatives` (lines 544-619).
LCreative(st, q, cv, pv) ==
    LET p == st.p
        c == st.c[p.ci]
        active == LActiveCreatives(c)
    IN  IF p.cri > Len(active) \/ LDailyStop(p.daily.spend, LDailyBudget(c))
        THEN [st EXCEPT !.p.pc = "dayend"]
        ELSE
          LET m == LApplyBudget(
                     LCreativeRaw(c, p.potential, Len(active), q, cv, pv),
                     LRemainingBudget(LDailyBudget(c), p.daily.spend,
                                      LTotalBudget(c, p.days), p.camp.spend))
              d == [impressions |-> m.impressions, clicks |-> m.clicks,
                    conversions |-> LConversions(c, m.clicks, q),
                    spend |-> m.spend]
          IN  [st EXCEPT !.p.daily = AddMetrics(p.daily, d), !.p.cri = p.cri + 1]

\* A day end that would halt the campaign on the draw alone.
LDayEndOnDraw(st, stop) ==
    LET p == st.p
        camp == AddMetrics(p.camp, p.daily)
    IN  IF stop
        THEN [st EXCEPT !.p.camp = camp, !.p.pc = "store"]
        ELSE [st EXCEPT !.p.camp = camp, !.p.pc = "day", !.p.day = p.day + 1]

\* "Accumulate campaign metrics" and the early stop (lines 621-636).
LDayEnd(st, stop) ==
    LET p == st.p
        camp == AddMetrics(p.camp, p.daily)
    IN  IF LNearlySpent(p.daily.spend, LDailyBudget(st.c[p.ci])) /\ stop
        THEN [st EXCEPT !.p.camp = camp, !.p.pc = "store"]
        ELSE [st EXCEPT !.p.camp = camp, !.p.pc = "day", !.p.day = p.day + 1]

\* "Store campaign results" and "Accumulate total metrics" (lines 638-652).
LStore(st) ==
    LET p == st.p
        m == p.camp
        entry == [id |-> st.c[p.ci].id,
                  impressions |-> m.impressions, clicks |-> m.clicks,
                  conversions |-> m.conversions, spend |-> m.spend,
                  ctr |-> SafeRatio(m.clicks, m.impressions),
                  cpa |-> SafeRatio(m.spend, m.conversions)]
    IN  [st EXCEPT !.r = PutEntry(st.r, entry),
                   !.p.total = AddMetrics(p.total, m),
                   !.p.ci = p.ci + 1, !.p.pc = "campaign"]

\* "Update total metrics" (lines 654-658): the four sums are written into
\* the envelope's record; ctr and cpa are left to the tail of run_simulation.
LFinish(st) ==
    LET t == st.p.total
        tm == [st.r.total_metrics EXCEPT !.impressions = t.impressions,
                                         !.clicks = t.clicks,
                                         !.conversions = t.conversions,
                                         !.spend = t.spend]
    IN  [st EXCEPT !.r = BaseAggregate([st.r EXCEPT !.total_metrics = tm]),
                   !.p = [st.p EXCEPT !.pc = "done"]]

(***************************************************************************)
(* AdSimulator: run_campaigns and _combine_results                         *)
(***************************************************************************)
\* The order in which run_campaigns runs the platforms it was given.
PlatformOrder == <<"google", "facebook", "linkedin">>
PlatformIndex(e) == CHOOSE i \in 1..3 : PlatformOrder[i] = e
FirstPlatform(platforms) ==
    PlatformOrder[CHOOSE i \in 1..3 :
        /\ PlatformOrder[i] \in platforms
        /\ \A j \in 1..(i - 1) : PlatformOrder[j] \notin platforms]
\* The platform run_campaigns turns to after e, "" when e was the last one.
NextPlatform(e, platforms) ==
    LET later == {x \in platforms : PlatformIndex(x) > PlatformIndex(e)}
    IN  IF later = {} THEN "" ELSE FirstPlatform(later)

\* self.results of __init__ and the arguments of the run_campaigns call;
\* calls counts the run_campaigns calls made so far, this one included.
NewAggregator(platforms, days) ==
    [platforms |-> platforms, days |-> days, calls |-> 1,
     results |-> [e \in Engines |-> EmptyResults],
     combined |-> <<>>]

\* _combine_results: the totals of the platforms that have results are
\* summed; ctr and cpa are set only when the denominator is positive.
CombineResults(res) ==
    LET present == SelectSeq(PlatformOrder, LAMBDA e : ~res[e].empty)
        RECURSIVE Sum(_, _)
        Sum(q, field) == IF q = <<>> THEN 0
                         ELSE res[Head(q)].total_metrics[field] + Sum(Tail(q), field)
        t == [impressions |-> Sum(present, "impressions"),
              clicks |-> Sum(present, "clicks"),
              conversions |-> Sum(present, "conversions"),
              spend |-> Sum(present, "spend"),
              ctr |-> Zero, cpa |-> Zero]
        t1 == IF t.impressions > 0
              THEN [t EXCEPT !.ctr = Frac(t.clicks, t.impressions)] ELSE t
        t2 == IF t.conversions > 0
              THEN [t1 EXCEPT !.cpa = Frac(t.spend, t.conversions)] ELSE t1
    IN  [total_metrics |-> t2,
         platform_comparison |-> {e \in Engines : ~res[e].empty}]

(***************************************************************************)
(* Hierarchies the search engine is run on, each built by the creation     *)
(* calls above.                                                            *)
(***************************************************************************)
\* The caller's `node["status"] = s` (async_batch_update on the reach engine).
set_campaign_status(cs, i, s) == [cs EXCEPT ![i].status = s]
set_unit_status(cs, i, j, s) == [cs EXCEPT ![i].units[j].status = s]

GData(daily, total) == [daily_budget |-> daily, total_budget |-> total,
                        conv_value |-> <<>>]
GBudgetDraws ==
    { GData(<<>>, <<>>), GData(<<0>>, <<>>), GData(<<3 * Money>>, <<3 * Money>>),
      GData(<<>>, <<100 * Money>>) }
GKeywordDraws == QualityDraws \X {"exact", "broad"}

\* One campaign, one ad group, one keyword.
GOneKeyword(data, fmt, kw) ==
    add_keyword(create_ad_group(create_campaign("google", <<>>, data), 1,
                                [ad_format |-> fmt]),
                1, 1, kw[2], kw[1])

GScenarios ==
    \* one keyword, every budget, format and keyword draw
    { GOneKeyword(d, f, k) : d \in GBudgetDraws, f \in {<<>>, <<"shopping">>},
                             k \in GKeywordDraws }
    \* two keywords in one ad group
    \cup { add_keyword(GOneKeyword(d, <<"shopping">>, <<10, "broad">>), 1, 1, "exact", 10) :
             d \in {GData(<<>>, <<>>), GData(<<3 * Money>>, <<3 * Money>>)} }
    \* two ad groups with one keyword each, with and without an ad under review
    \cup { add_keyword(create_ad_group(GOneKeyword(GData(<<>>, <<>>), <<"shopping">>,
                                                   <<10, "broad">>),
                                       1, [ad_format |-> <<>>]),
                       1, 2, "broad", 10) }
    \cup { g_create_ad(GOneKeyword(GData(<<>>, <<>>), <<>>, <<10, "broad">>), 1, 1, a) :
             a \in GApprovalDraws }
    \* a paused ad group, a paused keyword
    \cup { set_unit_status(GOneKeyword(GData(<<>>, <<>>), <<>>, <<10, "broad">>),
                           1, 1, "paused") }
    \cup { [GOneKeyword(GData(<<>>, <<>>), <<>>, <<10, "broad">>)
               EXCEPT ![1].units[1].keywords[1].status = "paused"] }
    \* an empty campaign, and a campaign beside a paused or an active sibling
    \cup { create_campaign("google", <<>>, GData(<<>>, <<>>)) }
    \cup { set_campaign_status(
               create_campaign("google",
                   GOneKeyword(GData(<<>>, <<>>), <<>>, <<10, "broad">>),
                   GData(<<>>, <<>>)),
               i, s) : i \in 1..2, s \in {"active", "paused"} }

(***************************************************************************)
(* Hierarchies and audiences the reach engine is run on.                   *)
(***************************************************************************)
set_ad_status(cs, i, j, k, s) == [cs EXCEPT ![i].units[j].ads[k].status = s]

FData(budget, objective) == [budget |-> budget, objective |-> objective]
FAdSetData(budget, audience, targeting, placements) ==
    [budget |-> budget, audience |-> audience, targeting |-> targeting,
     placements |-> placements]
\* Men of one location with five interests: a reach of 47,000.
FNarrow == [age_min |-> <<>>, age_max |-> <<>>, gender |-> "male",
            locations |-> 1, interests |-> 5]
\* An audience at the top of the data-model ranges.
FHot == define_audience(<<>>, "hot", 1000, 1000)

\* One campaign, one ad set, one ad.
FOneAd(data, asdata, relevance, review) ==
    f_create_ad(create_ad_set(create_campaign("facebook", <<>>, data), 1, asdata),
                1, 1, relevance, review)

FBudgetDraws == {<<>>, <<0>>, <<10 * Money>>}
FPlacementDraws == {<<>>, << <<"instagram_feed">> >>,
                    << <<"feed", "whatsapp_click_to_chat">> >>}

FScenarios ==
    \* one ad: every ad-set budget, placement list, relevance and review draw
    { [c |-> FOneAd(FData(<<>>, <<>>), FAdSetData(b, <<>>, <<FNarrow>>, pl), rel, rv),
       a |-> <<>>] :
         b \in FBudgetDraws, pl \in FPlacementDraws, rel \in RelevanceDraws,
         rv \in FReviewDraws }
    \* the audience with ctr_base = conversion_rate = 1.0, with and without a cap
    \cup { [c |-> FOneAd(FData(<<>>, <<"TRAFFIC">>),
                         FAdSetData(b, <<"hot">>, <<FNarrow>>, <<>>), 10, "approved"),
            a |-> FHot] : b \in {<<>>, <<10 * Money>>} }
    \* no targeting: no location, a reach of 0
    \cup { [c |-> FOneAd(FData(<<>>, <<>>), FAdSetData(<<>>, <<>>, <<>>, <<>>),
                         10, "approved"),
            a |-> <<>>] }
    \* two ad sets under a campaign budget of 15: explicit budgets of 10 each,
    \* and the default even split
    \cup { [c |-> f_create_ad(
                    create_ad_set(
                      FOneAd(FData(<<15 * Money>>, <<>>),
                             FAdSetData(b, <<>>, <<FNarrow>>, <<>>), 10, "approved"),
                      1, FAdSetData(b, <<>>, <<FNarrow>>, <<>>)),
                    1, 2, 10, "approved"),
            a |-> <<>>] : b \in {<<>>, <<10 * Money>>} }
    \* two ads in one ad set, the second one paused or not
    \cup { [c |-> set_ad_status(
                    f_create_ad(FOneAd(FData(<<>>, <<>>),
                                       FAdSetData(<<20 * Money>>, <<>>, <<FNarrow>>, <<>>),
                                       10, "approved"),
                                1, 1, 1, "approved"),
                    1, 1, 2, s),
            a |-> <<>>] : s \in {"active", "paused"} }
    \* a paused ad set
    \cup { [c |-> set_unit_status(
                    FOneAd(FData(<<>>, <<>>), FAdSetData(<<>>, <<>>, <<FNarrow>>, <<>>),
                           10, "approved"), 1, 1, "paused"),
            a |-> <<>>] }
    \* a campaign beside a paused or an active sibling
    \cup { [c |-> set_campaign_status(
                    create_campaign("facebook",
                        FOneAd(FData(<<>>, <<>>),
                               FAdSetData(<<10 * Money>>, <<>>, <<FNarrow>>, <<>>),
                               10, "approved"),
                        FData(<<>>, <<>>)),
                    i, s),
            a |-> <<>>] : i \in 1..2, s \in {"active", "paused"} }
    \* three campaigns, the first one serving
    \cup { [c |-> create_campaign("facebook",
                    create_campaign("facebook",
                        FOneAd(FData(<<>>, <<>>),
                               FAdSetData(<<10 * Money>>, <<>>, <<FNarrow>>, pl),
                               10, "approved"),
                        FData(<<>>, <<>>)),
                    FData(<<>>, <<>>)),
            a |-> <<>>] : pl \in FPlacementDraws }

(***************************************************************************)
(* Hierarchies the network engine is run on.                               *)
(***************************************************************************)
LData(type, objective, daily, total, strategy, bid, targeting) ==
    [type |-> type, objective |-> objective, daily_budget |-> daily,
     total_budget |-> total, bid_strategy |-> strategy, bid_amount |-> bid,
     targeting |-> targeting]
\* A campaign of the defaults with the given budgets and targeting.
LPlain(daily, total, targeting) ==
    LData(<<>>, <<>>, daily, total, <<>>, <<>>, targeting)
LBudgetDraws ==
    { <<(<<>>), (<<>>)>>, <<(<<0>>), (<<>>)>>, <<(<<5 * Money>>), (<<>>)>>,
      <<(<<>>), (<<5 * Money>>)>> }

\* One campaign with one creative.
LOneCreative(data, review) ==
    create_creative(create_campaign("linkedin", <<>>, data), 1, <<>>, TRUE, review)

LScenarios ==
    \* one creative: every budget, three targetings, both review draws
    { LOneCreative(LPlain(b[1], b[2], n), rv) :
        b \in LBudgetDraws, n \in {0, 1, LDimensions}, rv \in LReviewDraws }
    \* message ads for leads at a winning bid
    \cup { create_creative(
               create_campaign("linkedin", <<>>,
                   LData(<<"message_ads">>, <<"LEAD_GENERATION">>, <<>>, <<>>,
                         <<"CPM">>, <<400>>, LDimensions)),
               1, <<"message_ads">>, TRUE, "approved") }
    \* two creatives under a daily or a total budget of 5, the second one
    \* active or paused
    \cup { [create_creative(LOneCreative(LPlain(b[1], b[2], LDimensions), "approved"),
                            1, <<>>, TRUE, "approved")
               EXCEPT ![1].units[2].status = s] :
             b \in {<<(<<5 * Money>>), (<<>>)>>, <<(<<>>), (<<5 * Money>>)>>},
             s \in {"active", "paused"} }
    \* no creative at all, and a creative refused for its format
    \cup { create_campaign("linkedin", <<>>, LPlain(<<>>, <<>>, 0)),
           create_creative(create_campaign("linkedin", <<>>, LPlain(<<>>, <<>>, 0)),
                           1, <<"message_ads">>, TRUE, "approved") }
    \* a campaign beside a paused or an active sibling
    \cup { set_campaign_status(
               create_campaign("linkedin",
                   LOneCreative(LPlain(<<>>, <<>>, LDimensions), "approved"),
                   LPlain(<<>>, <<>>, 0)),
               i, s) : i \in 1..2, s \in {"active", "paused"} }

\* Hierarchies for a run_campaigns over several platforms: per engine
\* either no campaign or one campaign with one serving leaf.
SmallScenarios(e) ==
    CASE e = "google" ->
           {<<>>, GOneKeyword(GData(<<>>, <<>>), <<"shopping">>, <<10, "broad">>)}
      [] e = "facebook" ->
           {<<>>, create_campaign("facebook", <<>>, FData(<<>>, <<>>)),
            FOneAd(FData(<<>>, <<>>),
                         FAdSetData(<<10 * Money>>, <<>>, <<FNarrow>>, <<>>),
                         10, "approved")}
      [] e = "linkedin" ->
           {<<>>, create_creative(
                      create_campaign("linkedin", <<>>,
                          LData(<<"message_ads">>, <<"LEAD_GENERATION">>, <<>>, <<>>,
                                <<"CPM">>, <<400>>, LDimensions)),
                      1, <<"message_ads">>, TRUE, "approved")}
PlatformDraws == {Engines, {"facebook", "linkedin"}}

Scenarios(e) ==
    CASE e = "google" -> {[c |-> x, a |-> <<>>] : x \in GScenarios}
      [] e = "facebook" -> FScenarios
      [] e = "linkedin" -> {[c |-> x, a |-> <<>>] : x \in LScenarios}

(***************************************************************************)
(* The simulated API state.  Time is counted in minutes from the moment    *)
(* the engines are constructed, taken as the start of a calendar day.      *)
(***************************************************************************)
MinutesPerDay == 24 * 60
\* datetime.date(): the calendar day of a moment.
Date(t) == t \div MinutesPerDay

\* api_access["daily_quota"] of test and basic access; standard access has
\* float('inf').  The quota is kept as a ratio, like every float.
GDailyQuota == 15000
NewApiAccess ==
    [access_level |-> "test", daily_quota |-> <<GDailyQuota, 1>>,
     operations_used |-> 0, last_quota_reset |-> Date(0)]

\* set_api_credentials
set_api_credentials(api, access_level) ==
    [api EXCEPT !.access_level = access_level,
                !.daily_quota = IF access_level = "standard" THEN Inf
                                ELSE <<GDailyQuota, 1>>]

\* _check_api_quota: the counter is reset on a new day, then compared.
check_api_quota(api, t) ==
    LET a == IF Date(t) > api.last_quota_reset
             THEN [api EXCEPT !.operations_used = 0, !.last_quota_reset = Date(t)]
             ELSE api
    IN  [api |-> a,
         ok |-> ~(a.operations_used * a.daily_quota[2] >= a.daily_quota[1])]

track_api_call_counting(api, t) ==
    LET chk == check_api_quota(api, t)
    IN  [api |-> [chk.api EXCEPT !.operations_used = @ + 1], raised |-> ~chk.ok]

\* _track_api_call with operations = 1: raises when the quota check fails,
\* counts the operation otherwise.
track_api_call(api, t) ==
    LET chk == check_api_quota(api, t)
    IN  IF chk.ok
        THEN [api |-> [chk.api EXCEPT !.operations_used = @ + 1], raised |-> FALSE]
        ELSE [api |-> chk.api, raised |-> TRUE]

\* rate_limits and oauth of the network engine.
LCallsPerDay == 100000
LCallsPerMinute == 300
LTokenDays == 60
LRefreshDays == 365
NewRateLimits ==
    [current_day_calls |-> 0, current_minute_calls |-> 0,
     last_minute_reset |-> 0, last_day_reset |-> 0]
NewOauth == [expires_at |-> LTokenDays * MinutesPerDay]

\* _check_rate_limits: both counters are reset when due and incremented
\* before they are compared with the limits.
check_rate_limits(rl, t) ==
    LET d == IF Date(t) > Date(rl.last_day_reset)
             THEN [rl EXCEPT !.current_day_calls = 0,
                             !.last_day_reset = Date(t) * MinutesPerDay]
             ELSE rl
        m == IF t - d.last_minute_reset >= 1
             THEN [d EXCEPT !.current_minute_calls = 0, !.last_minute_reset = t]
             ELSE d
        n == [m EXCEPT !.current_day_calls = @ + 1, !.current_minute_calls = @ + 1]
    IN  [rl |-> n,
         ok |-> /\ n.current_day_calls <= LCallsPerDay
                /\ n.current_minute_calls <= LCallsPerMinute]

validate_token_always(o, t) == TRUE

\* _validate_token
validate_token(o, t) == ~(t > o.expires_at)

\* refresh_token: raises once the refresh token has expired as well, and
\* issues a token of LTokenDays days otherwise.
refresh_token(o, t) ==
    IF t > o.expires_at + LRefreshDays * MinutesPerDay
    THEN [oauth |-> o, raised |-> TRUE]
    ELSE [oauth |-> [expires_at |-> t + LTokenDays * MinutesPerDay], raised |-> FALSE]

(***************************************************************************)
(* The creation calls as the caller sees them: the quota, the rate-limit   *)
(* and the token checks, the lookup of the parent by id and the ValueError *)
(* when there is none.  Each returns the hierarchy, the outcome, the       *)
(* exception and the API state it leaves.                                  *)
(***************************************************************************)
Created(cs) == [c |-> cs, ret |-> "created", err |-> "none"]
Raised(cs, e) == [c |-> cs, ret |-> "raised", err |-> e]
WithApi(o, api) == [c |-> o.c, ret |-> o.ret, err |-> o.err, api |-> api]

\* GoogleAdsSimulator.create_ad_group(campaign_id, data)
CallCreateAdGroup(cs, api, t, cid, data) ==
    LET tr == track_api_call(api, t)
    IN  WithApi(IF tr.raised THEN Raised(cs, "quota_exceeded")
                ELSE IF FindCampaign(cs, cid) = 0 THEN Raised(cs, "not_found")
                ELSE Created(create_ad_group(cs, FindCampaign(cs, cid), data)),
                tr.api)

\* GoogleAdsSimulator.add_keyword(ad_group_id, ...)
CallAddKeyword(cs, api, t, uid, match_type, quality) ==
    LET tr == track_api_call(api, t)
    IN  WithApi(IF tr.raised THEN Raised(cs, "quota_exceeded")
                ELSE IF FindUnit(cs, uid) = <<0, 0>> THEN Raised(cs, "not_found")
                ELSE Created(add_keyword(cs, FindUnit(cs, uid)[1], FindUnit(cs, uid)[2],
                                         match_type, quality)),
                tr.api)

\* GoogleAdsSimulator.create_ad(ad_group_id, ...)
CallGCreateAd(cs, api, t, uid, approval) ==
    LET tr == track_api_call(api, t)
    IN  WithApi(IF tr.raised THEN Raised(cs, "quota_exceeded")
                ELSE IF FindUnit(cs, uid) = <<0, 0>> THEN Raised(cs, "not_found")
                ELSE Created(g_create_ad(cs, FindUnit(cs, uid)[1], FindUnit(cs, uid)[2],
                                         approval)),
                tr.api)

\* search, generate_recommendations and get_change_history: the call is
\* tracked first; what they return is read from the state and not kept.
CallQuery(api, t) ==
    LET tr == track_api_call(api, t)
    IN  [err |-> IF tr.raised THEN "quota_exceeded" ELSE "none", api |-> tr.api]

\* FacebookAdsSimulator.create_ad_set(campaign_id, data)
CallCreateAdSet(cs, cid, data) ==
    IF FindCampaign(cs, cid) = 0 THEN Raised(cs, "not_found")
    ELSE Created(create_ad_set(cs, FindCampaign(cs, cid), data))

\* FacebookAdsSimulator.create_ad(ad_set_id, ...)
CallFCreateAd(cs, uid, relevance, review) ==
    IF FindUnit(cs, uid) = <<0, 0>> THEN Raised(cs, "not_found")
    ELSE Created(f_create_ad(cs, FindUnit(cs, uid)[1], FindUnit(cs, uid)[2],
                             relevance, review))

CallCreateCreativeLate(cs, rl, o, t, cid, format, specs_ok, review) ==
    LET chk == check_rate_limits(rl, t)
        i == FindCampaign(cs, cid)
        after == create_creative(cs, i, format, TRUE, review)
    IN  WithApi(IF ~chk.ok THEN Raised(cs, "rate_limited")
                ELSE IF ~validate_token(o, t) THEN Raised(cs, "invalid_access_token")
                ELSE IF i = 0 THEN Raised(cs, "not_found")
                ELSE IF specs_ok THEN Created(after)
                ELSE Raised(after, "validation"),
                chk.rl)

\* LinkedInAdsSimulator.create_creative(campaign_id, data): the rate limit,
\* then the token, then the lookup, the compatibility and the specifications.
CallCreateCreative(cs, rl, o, t, cid, format, specs_ok, review) ==
    LET chk == check_rate_limits(rl, t)
        i == FindCampaign(cs, cid)
        after == create_creative(cs, i, format, specs_ok, review)
    IN  WithApi(IF ~chk.ok THEN Raised(cs, "rate_limited")
                ELSE IF ~validate_token(o, t) THEN Raised(cs, "invalid_access_token")
                ELSE IF i = 0 THEN Raised(cs, "not_found")
                ELSE IF Len(after[i].units) > Len(cs[i].units) THEN Created(after)
                ELSE Raised(after, "validation"),
                chk.rl)

\* Campaign data of the defaults.
DefaultData(e) ==
    CASE e = "google" -> GData(<<>>, <<>>)
      [] e = "facebook" -> FData(<<>>, <<>>)
      [] e = "linkedin" -> LPlain(<<>>, <<>>, 0)

\* The ids a caller may pass: those of the campaigns, resp. of their units,
\* and one that names nothing.
CampaignIds(cs) == {cs[i].id : i \in 1..Len(cs)}
UnitIds(cs) == UNION {{cs[i].units[j].id : j \in 1..Len(cs[i].units)} : i \in 1..Len(cs)}
NoSuchId == <<"no-such-id">>

(***************************************************************************)
(* The specification: hierarchies built by the creation calls, and one     *)
(* run_campaigns over the platforms in agg.platforms; sel is the engine    *)
(* whose run_simulation is in progress.                                    *)
(***************************************************************************)
Apply(e, st) ==
    /\ campaigns' = [campaigns EXCEPT ![e] = st.c]
    /\ results' = [results EXCEPT ![e] = st.r]
    /\ run' = [run EXCEPT ![e] = st.p]

At(e, pc) == sel = e /\ run[e].pc = pc

G_Start ==
    /\ At("google", "idle")
    /\ Apply("google", GStart(Eng("google"), agg.days))
    /\ UNCHANGED <<audiences, history, agg, sel, ret, apivars, threads, sims, batch>>
G_Campaign ==
    /\ At("google", "campaign")
    /\ Apply("google", GCampaign(Eng("google")))
    /\ UNCHANGED <<audiences, history, agg, sel, ret, apivars, threads, sims, batch>>
G_Day ==
    /\ At("google", "day")
    /\ Apply("google", GDay(Eng("google")))
    /\ UNCHANGED <<audiences, history, agg, sel, ret, apivars, threads, sims, batch>>
G_AdGroup ==
    /\ At("google", "adgroup")
    /\ Apply("google", GAdGroup(Eng("google")))
    /\ UNCHANGED <<audiences, history, agg, sel, ret, apivars, threads, sims, batch>>
G_Keyword ==
    /\ At("google", "kw")
    /\ \E u \in GImprDraws, r1 \in GRank1Draws, r2 \in GRank2Draws :
           Apply("google", GKeyword(Eng("google"), u, r1, r2))
    /\ UNCHANGED <<audiences, history, agg, sel, ret, apivars, threads, sims, batch>>
G_DayEnd ==
    /\ At("google", "dayend")
    /\ Apply("google", GDayEnd(Eng("google")))
    /\ UNCHANGED <<audiences, history, agg, sel, ret, apivars, threads, sims, batch>>
G_Store ==
    /\ At("google", "store")
    /\ Apply("google", GStore(Eng("google")))
    /\ UNCHANGED <<audiences, history, agg, sel, ret, apivars, threads, sims, batch>>
G_Finish ==
    /\ At("google", "finish")
    /\ Apply("google", GFinish(Eng("google")))
    /\ UNCHANGED <<audiences, history, agg, sel, ret, apivars, threads, sims, batch>>

F_Start ==
    /\ At("facebook", "idle")
    /\ \E weekday \in FWeekdayDraws :
           Apply("facebook", FStart(Eng("facebook"), agg.days, weekday))
    /\ UNCHANGED <<audiences, history, agg, sel, ret, apivars, threads, sims, batch>>
F_Campaign ==
    /\ At("facebook", "campaign")
    /\ Apply("facebook", FCampaign(Eng("facebook")))
    /\ UNCHANGED <<audiences, history, agg, sel, ret, apivars, threads, sims, batch>>
F_AdSet ==
    /\ At("facebook", "adset")
    /\ Apply("facebook", FAdSet(Eng("facebook")))
    /\ UNCHANGED <<audiences, history, agg, sel, ret, apivars, threads, sims, batch>>
F_Ad ==
    /\ At("facebook", "ad")
    /\ Apply("facebook", FAd(Eng("facebook")))
    /\ UNCHANGED <<audiences, history, agg, sel, ret, apivars, threads, sims, batch>>
F_Placement ==
    /\ At("facebook", "placement")
    /\ Apply("facebook", FPlacementStep(Eng("facebook")))
    /\ UNCHANGED <<audiences, history, agg, sel, ret, apivars, threads, sims, batch>>
F_Day ==
    /\ At("facebook", "dayloop")
    /\ \E df \in FDailyFactorDraws, iv \in FImprVarDraws, cv \in FCtrVarDraws,
          mv \in FCpmVarDraws :
           Apply("facebook", FDay(Eng("facebook"), audiences["facebook"], df, iv, cv, mv))
    /\ UNCHANGED <<audiences, history, agg, sel, ret, apivars, threads, sims, batch>>
F_AdSetEnd ==
    /\ At("facebook", "adsetend")
    /\ Apply("facebook", FAdSetEnd(Eng("facebook")))
    /\ UNCHANGED <<audiences, history, agg, sel, ret, apivars, threads, sims, batch>>
\* The store also files the campaign under historical_data["campaigns"].
F_Store ==
    /\ At("facebook", "store")
    /\ Apply("facebook", FStore(Eng("facebook")))
    /\ history' = IF FStore(Eng("facebook")).p.pc = "raised" THEN history
                  ELSE history \cup {campaigns["facebook"][run["facebook"].ci].id}
    /\ UNCHANGED <<audiences, agg, sel, ret, apivars, threads, sims, batch>>
F_Finish ==
    /\ At("facebook", "finish")
    /\ Apply("facebook", FFinish(Eng("facebook"), history))
    /\ UNCHANGED <<audiences, history, agg, sel, ret, apivars, threads, sims, batch>>

L_Start ==
    /\ At("linkedin", "idle")
    /\ \E weekday \in LWeekdayDraws :
           Apply("linkedin", LStart(Eng("linkedin"), agg.days, weekday))
    /\ UNCHANGED <<audiences, history, agg, sel, ret, apivars, threads, sims, batch>>
L_Campaign ==
    /\ At("linkedin", "campaign")
    /\ Apply("linkedin", LCampaign(Eng("linkedin")))
    /\ UNCHANGED <<audiences, history, agg, sel, ret, apivars, threads, sims, batch>>
L_Day ==
    /\ At("linkedin", "day")
    /\ \E dv \in LDailyVarDraws : Apply("linkedin", LDay(Eng("linkedin"), dv))
    /\ UNCHANGED <<audiences, history, agg, sel, ret, apivars, threads, sims, batch>>
L_Creative ==
    /\ At("linkedin", "creative")
    /\ \E q \in LQualityDraws, cv \in LCtrVarDraws, pv \in LCpmVarDraws :
           Apply("linkedin", LCreative(Eng("linkedin"), q, cv, pv))
    /\ UNCHANGED <<audiences, history, agg, sel, ret, apivars, threads, sims, batch>>
L_DayEnd ==
    /\ At("linkedin", "dayend")
    /\ \E stop \in BOOLEAN : Apply("linkedin", LDayEnd(Eng("linkedin"), stop))
    /\ UNCHANGED <<audiences, history, agg, sel, ret, apivars, threads, sims, batch>>
L_Store ==
    /\ At("linkedin", "store")
    /\ Apply("linkedin", LStore(Eng("linkedin")))
    /\ UNCHANGED <<audiences, history, agg, sel, ret, apivars, threads, sims, batch>>
L_Finish ==
    /\ At("linkedin", "finish")
    /\ Apply("linkedin", LFinish(Eng("linkedin")))
    /\ UNCHANGED <<audiences, history, agg, sel, ret, apivars, threads, sims, batch>>

\* run_simulation returns into run_campaigns, which stores the engine's
\* results and turns to the next platform or, after the last one, combines.
A_Return ==
    /\ run[sel].pc = "done"
    /\ LET res == [agg.results EXCEPT ![sel] = results[sel]]
           nxt == NextPlatform(sel, agg.platforms)
       IN  /\ agg' = [agg EXCEPT !.results = res,
                                 !.combined = IF nxt = "" THEN <<CombineResults(res)>>
                                              ELSE agg.combined]
           /\ sel' = IF nxt = "" THEN sel ELSE nxt
    /\ run' = [run EXCEPT ![sel] = [pc |-> "returned"]]
    /\ UNCHANGED <<campaigns, audiences, results, history, ret, apivars, threads, sims, batch>>

\* The API state of freshly constructed engines.
NoThreads == [waiting |-> <<>>, returned |-> <<>>]
NoBatch == [pc |-> "none", updates |-> <<>>,
            result |-> [success |-> <<>>, failed |-> <<>>]]
NoSims == [task |-> "none", status_file |-> "absent", error_file |-> FALSE,
           seen |-> "none"]

InitApi ==
    /\ threads = NoThreads
    /\ sims = NoSims
    /\ batch = NoBatch
    /\ err = "none"
    /\ api_access = NewApiAccess
    /\ rate_limits = NewRateLimits
    /\ oauth = NewOauth
    /\ now = 0

InitOne ==
    /\ sel \in Engines
    /\ \E sc \in Scenarios(sel) :
          /\ campaigns = [e \in Engines |-> IF e = sel THEN sc.c ELSE <<>>]
          /\ audiences = [e \in Engines |-> IF e = sel THEN sc.a ELSE <<>>]
    /\ \E days \in 1..MaxDays : agg = NewAggregator({sel}, days)

InitMany ==
    /\ \E platforms \in PlatformDraws, days \in 1..MaxAggDays :
          /\ sel = FirstPlatform(platforms)
          /\ agg = NewAggregator(platforms, days)
    /\ campaigns \in [Engines -> UNION {SmallScenarios(e) : e \in Engines}]
    /\ \A e \in Engines : campaigns[e] \in SmallScenarios(e)
    /\ audiences = [e \in Engines |-> <<>>]

Init ==
    /\ InitOne \/ InitMany
    /\ results = [e \in Engines |-> EmptyResults]
    /\ run = [e \in Engines |-> IdleRun]
    /\ history = {}
    /\ ret = "none"
    /\ InitApi

Next ==
    \/ G_Start \/ G_Campaign \/ G_Day \/ G_AdGroup \/ G_Keyword
    \/ G_DayEnd \/ G_Store \/ G_Finish
    \/ F_Start \/ F_Campaign \/ F_AdSet \/ F_Ad \/ F_Placement \/ F_Day
    \/ F_AdSetEnd \/ F_Store \/ F_Finish
    \/ L_Start \/ L_Campaign \/ L_Day \/ L_Creative \/ L_DayEnd \/ L_Store
    \/ L_Finish
    \/ A_Return

Spec == Init /\ [][Next]_vars

(***************************************************************************)
(* A second specification: the creation calls of one engine instance, in   *)
(* any order and on any parent, with calls that fail and sub-units that    *)
(* are paused in between.                                                  *)
(***************************************************************************)
Outcome(o) ==
    /\ campaigns' = [campaigns EXCEPT ![sel] = o.c]
    /\ ret' = o.ret
    /\ err' = o.err
    /\ UNCHANGED <<audiences, results, run, history, agg, sel, now, threads, sims, batch>>
\* Calls on the search engine leave api_access as _track_api_call left it,
\* calls on the network engine rate_limits as _check_rate_limits left it.
GOutcome(o) ==
    /\ Outcome(o)
    /\ api_access' = o.api
    /\ UNCHANGED <<rate_limits, oauth>>
FOutcome(o) ==
    /\ Outcome(o)
    /\ UNCHANGED <<api_access, rate_limits, oauth>>
LOutcome(o) ==
    /\ Outcome(o)
    /\ rate_limits' = o.api
    /\ UNCHANGED <<api_access, oauth>>

\* Room under the parent the id names (always, when it names nothing).
RoomInCampaign(cid) ==
    IF FindCampaign(campaigns[sel], cid) = 0 THEN TRUE
    ELSE Len(campaigns[sel][FindCampaign(campaigns[sel], cid)].units) < MaxUnits
RoomInUnit(uid, field) ==
    IF FindUnit(campaigns[sel], uid) = <<0, 0>> THEN TRUE
    ELSE Len(campaigns[sel][FindUnit(campaigns[sel], uid)[1]]
                .units[FindUnit(campaigns[sel], uid)[2]][field]) < MaxLeaves

\* The sub-units and leaf units of a hierarchy of the search engine, resp.
\* the creatives of one of the network engine.
RECURSIVE GSubUnits(_)
GSubUnits(cs) ==
    IF cs = <<>> THEN 0
    ELSE Len(Head(cs).units)
         + SumSeq([j \in 1..Len(Head(cs).units) |->
                      Len(Head(cs).units[j].keywords) + Len(Head(cs).units[j].ads)])
         + GSubUnits(Tail(cs))
RECURSIVE LSubUnits(_)
LSubUnits(cs) ==
    IF cs = <<>> THEN 0 ELSE Len(Head(cs).units) + LSubUnits(Tail(cs))

\* At most MaxFailed counted calls have failed so far (the counters start
\* at 0 here and every counted call either adds a unit or fails).
GMayFail(o) ==
    o.ret = "created" \/ api_access.operations_used < GSubUnits(campaigns[sel]) + MaxFailed
LMayFail(o) ==
    o.ret = "created" \/ rate_limits.current_day_calls < LSubUnits(campaigns[sel]) + MaxFailed

K_CreateCampaign ==
    /\ Len(campaigns[sel]) < MaxCampaigns
    /\ FOutcome(Created(create_campaign(sel, campaigns[sel], DefaultData(sel))))
K_CreateAdGroup ==
    /\ sel = "google"
    /\ \E cid \in CampaignIds(campaigns[sel]) \cup {NoSuchId} :
          LET o == CallCreateAdGroup(campaigns[sel], api_access, now, cid,
                                     [ad_format |-> <<>>])
          IN  RoomInCampaign(cid) /\ GMayFail(o) /\ GOutcome(o)
K_AddKeyword ==
    /\ sel = "google"
    /\ \E uid \in UnitIds(campaigns[sel]) \cup {NoSuchId} :
          LET o == CallAddKeyword(campaigns[sel], api_access, now, uid, "exact", 5)
          IN  RoomInUnit(uid, "keywords") /\ GMayFail(o) /\ GOutcome(o)
K_GCreateAd ==
    /\ sel = "google"
    /\ \E uid \in UnitIds(campaigns[sel]) \cup {NoSuchId} :
          LET o == CallGCreateAd(campaigns[sel], api_access, now, uid, "approved")
          IN  RoomInUnit(uid, "ads") /\ GMayFail(o) /\ GOutcome(o)
K_CreateAdSet ==
    /\ sel = "facebook"
    /\ \E cid \in CampaignIds(campaigns[sel]) \cup {NoSuchId} :
          /\ RoomInCampaign(cid)
          /\ FOutcome(CallCreateAdSet(campaigns[sel], cid,
                                      FAdSetData(<<>>, <<>>, <<>>, <<>>)))
K_FCreateAd ==
    /\ sel = "facebook"
    /\ \E uid \in UnitIds(campaigns[sel]) \cup {NoSuchId}, review \in FReviewDraws :
          /\ RoomInUnit(uid, "ads")
          /\ FOutcome(CallFCreateAd(campaigns[sel], uid, 5, review))
K_CreateCreative ==
    /\ sel = "linkedin"
    /\ \E cid \in CampaignIds(campaigns[sel]) \cup {NoSuchId},
          d \in LCreativeDraws, review \in LReviewDraws :
          LET o == CallCreateCreative(campaigns[sel], rate_limits, oauth, now, cid,
                                      d.format, validate_creative_specs(d), review)
          IN  RoomInCampaign(cid) /\ LMayFail(o) /\ LOutcome(o)
\* The caller pauses a sub-unit.
K_PauseUnit ==
    /\ Cardinality({p \in (1..MaxCampaigns) \X (1..MaxUnits) :
                       /\ p[1] <= Len(campaigns[sel])
                       /\ p[2] <= Len(campaigns[sel][p[1]].units)
                       /\ campaigns[sel][p[1]].units[p[2]].status # "active"})
          < MaxPaused
    /\ \E i \in 1..Len(campaigns[sel]) : \E j \in 1..Len(campaigns[sel][i].units) :
          campaigns' = [campaigns EXCEPT ![sel] = set_unit_status(@, i, j, "paused")]
    /\ UNCHANGED <<audiences, results, run, history, agg, sel, ret, apivars, threads, sims, batch>>

InitCreate ==
    /\ sel \in Engines
    /\ campaigns = [e \in Engines |-> <<>>]
    /\ audiences = [e \in Engines |-> <<>>]
    /\ results = [e \in Engines |-> EmptyResults]
    /\ run = [e \in Engines |-> IdleRun]
    /\ history = {}
    /\ agg = NewAggregator({sel}, 1)
    /\ ret = "none"
    /\ InitApi

NextCreate ==
    \/ K_CreateCampaign \/ K_CreateAdGroup \/ K_AddKeyword \/ K_GCreateAd
    \/ K_CreateAdSet \/ K_FCreateAd \/ K_CreateCreative
    \/ K_PauseUnit

SpecCreate == InitCreate /\ [][NextCreate]_vars

(***************************************************************************)
(* run_campaigns called again: once a call has returned, or has been left  *)
(* by an exception of an engine, the caller makes the next call on a       *)
(* subset of the platforms.  The engines keep their hierarchies and their  *)
(* results from call to call.                                              *)
(***************************************************************************)
RerunDraws == {{"google"}, {"google", "facebook"}}
CallReturned == run[sel].pc = "returned" /\ NextPlatform(sel, agg.platforms) = ""
CallRaised == run[sel].pc = "raised"
A_RunCampaigns ==
    /\ CallReturned \/ CallRaised
    /\ agg.calls < MaxCalls
    /\ \E platforms \in RerunDraws, days \in 1..MaxAggDays :
          /\ agg' = [agg EXCEPT !.platforms = platforms, !.days = days,
                                !.calls = @ + 1]
          /\ sel' = FirstPlatform(platforms)
    /\ run' = [e \in Engines |-> IdleRun]
    /\ UNCHANGED <<campaigns, audiences, results, history, ret, apivars, threads, sims, batch>>

InitCalls ==
    /\ InitMany
    /\ results = [e \in Engines |-> EmptyResults]
    /\ run = [e \in Engines |-> IdleRun]
    /\ history = {}
    /\ ret = "none"
    /\ InitApi

NextCalls ==
    \/ G_Start \/ G_Campaign \/ G_Day \/ G_AdGroup \/ G_Keyword
    \/ G_DayEnd \/ G_Store \/ G_Finish
    \/ F_Start \/ F_Campaign \/ F_AdSet \/ F_Ad \/ F_Placement \/ F_Day
    \/ F_AdSetEnd \/ F_Store \/ F_Finish
    \/ L_Start \/ L_Campaign \/ L_Day \/ L_Creative \/ L_DayEnd \/ L_Store
    \/ L_Finish
    \/ A_Return
    \/ A_RunCampaigns

SpecCalls == InitCalls /\ [][NextCalls]_vars

(***************************************************************************)
(* A third specification: the management operations of the search engine   *)
(* and of the network engine against their quota, rate limits and token,   *)
(* with the clock moving in between and one run_simulation of the search   *)
(* engine.  The engines start on one campaign, fresh or with the operations *)
(* of a day of calls behind them.                                          *)
(***************************************************************************)
\* The moments the clock is moved to: the next minute, the last minute of
\* the first day, the next day, the day the token has expired, the day the
\* refresh token has expired.
ClockDraws ==
    {1, MinutesPerDay - 1, MinutesPerDay, MinutesPerDay + 1,
     (LTokenDays + 1) * MinutesPerDay,
     (LTokenDays + LRefreshDays + 1) * MinutesPerDay}

\* The counters are followed from 0 and around their limits.
InWindow(n, limit) == n < MaxOps \/ (n >= limit - MaxOps /\ n < limit + MaxOps)
Quiet == run[sel].pc \in {"idle", "done", "returned"}
GCanCall == sel = "google" /\ Quiet /\ InWindow(api_access.operations_used, GDailyQuota)
LCanCall ==
    /\ sel = "linkedin"
    /\ InWindow(rate_limits.current_minute_calls, LCallsPerMinute)
    /\ InWindow(rate_limits.current_day_calls, LCallsPerDay)
        \/ InWindow(rate_limits.current_day_calls, LCallsPerMinute)

ApiRoomInCampaign(cid) ==
    IF FindCampaign(campaigns[sel], cid) = 0 THEN TRUE
    ELSE Len(campaigns[sel][FindCampaign(campaigns[sel], cid)].units) < MaxApiUnits
ApiRoomInUnit(uid, field) ==
    IF FindUnit(campaigns[sel], uid) = <<0, 0>> THEN TRUE
    ELSE Len(campaigns[sel][FindUnit(campaigns[sel], uid)[1]]
                .units[FindUnit(campaigns[sel], uid)[2]][field]) < MaxApiUnits

M_CreateAdGroup ==
    /\ GCanCall
    /\ \E cid \in CampaignIds(campaigns[sel]) \cup {NoSuchId} :
          /\ ApiRoomInCampaign(cid)
          /\ GOutcome(CallCreateAdGroup(campaigns[sel], api_access, now, cid,
                                        [ad_format |-> <<>>]))
M_AddKeyword ==
    /\ GCanCall
    /\ \E uid \in UnitIds(campaigns[sel]) \cup {NoSuchId} :
          /\ ApiRoomInUnit(uid, "keywords")
          /\ GOutcome(CallAddKeyword(campaigns[sel], api_access, now, uid, "exact", 5))
M_GCreateAd ==
    /\ GCanCall
    /\ \E uid \in UnitIds(campaigns[sel]) \cup {NoSuchId} :
          /\ ApiRoomInUnit(uid, "ads")
          /\ GOutcome(CallGCreateAd(campaigns[sel], api_access, now, uid, "approved"))

\* search, generate_recommendations and get_change_history only read: the
\* call is tracked and nothing else changes.
Tracked ==
    /\ err' = CallQuery(api_access, now).err
    /\ api_access' = CallQuery(api_access, now).api
    /\ UNCHANGED <<threads, campaigns, audiences, results, run, history, agg, sel, ret,
                   rate_limits, oauth, now, sims, batch>>
\* search(query): the call is tracked, the query is split into its fields
\* and its resource, and for each campaign of the resource "campaign" every
\* metrics field is read from self.results["campaigns"], a key that
\* self.results = {} of __init__ does not have.
GQueryDraws == {[resource |-> "campaign", metrics |-> TRUE],
                [resource |-> "campaign", metrics |-> FALSE],
                [resource |-> "ad_group", metrics |-> FALSE]}
CallSearch(cs, res, api, t, query) ==
    LET tr == track_api_call(api, t)
    IN  [err |-> IF tr.raised THEN "quota_exceeded"
                 ELSE IF /\ query.resource = "campaign" /\ query.metrics
                         /\ cs # <<>> /\ res.empty
                      THEN "key_error"
                 ELSE "none",
         api |-> tr.api]
Searched(query) ==
    /\ err' = CallSearch(campaigns[sel], results[sel], api_access, now, query).err
    /\ api_access' = CallSearch(campaigns[sel], results[sel], api_access, now, query).api
    /\ UNCHANGED <<threads, campaigns, audiences, results, run, history, agg, sel, ret,
                   rate_limits, oauth, now, sims, batch>>
M_Search ==
    /\ GCanCall
    /\ \E query \in GQueryDraws : Searched(query)
M_GenerateRecommendations ==
    /\ GCanCall
    /\ Tracked
M_GetChangeHistory ==
    /\ GCanCall
    /\ Tracked

M_SetApiCredentials ==
    /\ sel = "google" /\ Quiet
    /\ \E level \in {"test", "basic", "standard"} :
          api_access' = set_api_credentials(api_access, level)
    /\ UNCHANGED <<threads, campaigns, audiences, results, run, history, agg, sel, ret, err,
                   rate_limits, oauth, now, sims, batch>>

M_CreateCreative ==
    /\ LCanCall
    /\ \E cid \in CampaignIds(campaigns[sel]) \cup {NoSuchId},
          d \in LCreativeDraws, review \in LReviewDraws :
          /\ ApiRoomInCampaign(cid)
          /\ LOutcome(CallCreateCreative(campaigns[sel], rate_limits, oauth, now, cid,
                                         d.format, validate_creative_specs(d), review))
\* get_analytics(campaign_ids): the rate limit, then the campaigns the ids
\* name, all of them when no id is given; for each of them the lookup
\* `campaign_id not in self.results["campaigns"]`.
CallGetAnalytics(cs, res, rl, t, ids) ==
    LET chk == check_rate_limits(rl, t)
        target == IF ids = {} THEN CampaignIds(cs) ELSE CampaignIds(cs) \cap ids
    IN  [err |-> IF ~chk.ok THEN "rate_limited"
                 ELSE IF target # {} /\ res.empty THEN "key_error"
                 ELSE "none",
         api |-> chk.rl]
GotAnalytics(ids) ==
    /\ err' = CallGetAnalytics(campaigns[sel], results[sel], rate_limits, now, ids).err
    /\ rate_limits' =
           CallGetAnalytics(campaigns[sel], results[sel], rate_limits, now, ids).api
    /\ UNCHANGED <<threads, campaigns, audiences, results, run, history, agg, sel, ret,
                   api_access, oauth, now, sims, batch>>
M_GetAnalytics ==
    /\ LCanCall
    /\ \E ids \in {{}, {NoSuchId}} : GotAnalytics(ids)
M_RefreshToken ==
    /\ sel = "linkedin"
    /\ oauth' = refresh_token(oauth, now).oauth
    /\ err' = IF refresh_token(oauth, now).raised THEN "refresh_token_expired" ELSE "none"
    /\ UNCHANGED <<threads, campaigns, audiences, results, run, history, agg, sel, ret,
                   api_access, rate_limits, now, sims, batch>>

\* Time passes between two calls.
M_Tick ==
    /\ Quiet
    /\ \E t \in ClockDraws : t > now /\ now' = t
    /\ UNCHANGED <<threads, campaigns, audiences, results, run, history, agg, sel, ret, err,
                   api_access, rate_limits, oauth, sims, batch>>

\* The engine on its first call, or late on its first day with all but one
\* of the operations of a limit used.
InitApiState ==
    \/ /\ now = 0
       /\ api_access = NewApiAccess
       /\ rate_limits = NewRateLimits
    \/ /\ now = MinutesPerDay - 1
       /\ api_access = [NewApiAccess EXCEPT !.operations_used = GDailyQuota - 1]
       /\ rate_limits \in
            {[current_day_calls |-> LCallsPerMinute - 1,
              current_minute_calls |-> LCallsPerMinute - 1,
              last_minute_reset |-> now, last_day_reset |-> 0],
             [current_day_calls |-> LCallsPerDay - 1, current_minute_calls |-> 1,
              last_minute_reset |-> now, last_day_reset |-> 0]}

InitManage ==
    /\ sel \in {"google", "linkedin"}
    /\ campaigns = [e \in Engines |->
                      IF e = sel THEN create_campaign(e, <<>>, DefaultData(e)) ELSE <<>>]
    /\ audiences = [e \in Engines |-> <<>>]
    /\ results = [e \in Engines |-> EmptyResults]
    /\ run = [e \in Engines |-> IdleRun]
    /\ history = {}
    /\ agg = NewAggregator({sel}, 1)
    /\ ret = "none"
    /\ sims = NoSims
    /\ batch = NoBatch
    /\ threads = NoThreads
    /\ err = "none"
    /\ oauth = NewOauth
    /\ InitApiState

NextManage ==
    \/ M_CreateAdGroup \/ M_AddKeyword \/ M_GCreateAd
    \/ M_Search \/ M_GenerateRecommendations \/ M_GetChangeHistory
    \/ M_SetApiCredentials
    \/ M_CreateCreative \/ M_RefreshToken \/ M_GetAnalytics
    \/ M_Tick
    \/ G_Start \/ G_Campaign \/ G_Day \/ G_AdGroup \/ G_Keyword
    \/ G_DayEnd \/ G_Store \/ G_Finish
    \/ A_Return

SpecManage == InitManage /\ [][NextManage]_vars

(***************************************************************************)
(* A fifth specification: the engines of one aggregator used by one task   *)
(* each.  A campaign is created on the three platforms through             *)
(* create_cross_platform_campaign; then the steps of the tasks interleave  *)
(* in any order: creation calls on each engine, a budget update on the     *)
(* reach engine, and run_simulation on the search and the reach engine.    *)
(* A dict is an object: every campaign made from a dict carries the        *)
(* identity of its data dict (obj), and a write into a data dict is seen   *)
(* by every campaign whose data is that object.                            *)
(***************************************************************************)
\* The objective_mapping tables of create_cross_platform_campaign, applied
\* when the base data has an objective.
CrossObjective(e, objective) ==
    IF objective = <<>> THEN <<>>
    ELSE LET o == objective[1] IN
         CASE e = "google" ->
                <<CASE o = "conversions" -> "CONVERSION" [] o = "traffic" -> "SEARCH"
                    [] o = "awareness" -> "DISPLAY" [] o = "video_views" -> "VIDEO"
                    [] OTHER -> "CONVERSION">>
           [] e = "facebook" ->
                <<CASE o = "conversions" -> "CONVERSIONS" [] o = "traffic" -> "TRAFFIC"
                    [] o = "awareness" -> "BRAND_AWARENESS"
                    [] o = "video_views" -> "VIDEO_VIEWS"
                    [] OTHER -> "CONVERSIONS">>
           [] e = "linkedin" ->
                <<CASE o = "conversions" -> "WEBSITE_CONVERSIONS"
                    [] o = "traffic" -> "WEBSITE_VISITS"
                    [] o = "awareness" -> "BRAND_AWARENESS"
                    [] o = "video_views" -> "VIDEO_VIEWS"
                    [] o = "leads" -> "LEAD_GENERATION"
                    [] OTHER -> "WEBSITE_CONVERSIONS">>

SameObject(obj, e) == obj

\* campaign_data.copy(): a new dict for the platform, with the same values.
CopyOf(obj, e) == <<obj, e>>

\* The copy of the base data as the engine of platform e reads it, with the
\* objective mapped for the platform.
CrossPlatformData(e, base) ==
    [obj |-> CopyOf(base.obj, e)]
    @@ (CASE e = "google" ->
               GData(base.daily_budget, <<>>)
               @@ [objective |-> CrossObjective(e, base.objective),
                   budget |-> base.budget]
          [] e = "facebook" ->
               FData(base.budget, CrossObjective(e, base.objective))
               @@ [daily_budget |-> base.daily_budget]
          [] e = "linkedin" ->
               LData(<<>>, CrossObjective(e, base.objective), base.daily_budget,
                     <<>>, <<>>, <<>>, 0)
               @@ [budget |-> base.budget])

\* The dict handed to create_cross_platform_campaign.
CrossBase ==
    [obj |-> "campaign_data", objective |-> <<"traffic">>,
     budget |-> <<10 * Money>>, daily_budget |-> <<3 * Money>>]
CrossBudgetDraws == {5 * Money}

\* d["budget"] = v written into the dict of identity obj: every campaign of
\* every engine whose data is that dict shows the new value.
WriteBudget(all, obj, v) ==
    [e \in Engines |->
       [i \in 1..Len(all[e]) |->
          IF "obj" \in DOMAIN all[e][i].data /\ all[e][i].data.obj = obj
          THEN [all[e][i] EXCEPT !.data.budget = <<v>>]
          ELSE all[e][i]]]

\* create_cross_platform_campaign(campaign_data) on the three platforms.
X_CreateCrossPlatformCampaign ==
    /\ \A e \in Engines : Len(campaigns[e]) = 0 /\ run[e].pc = "idle"
    /\ campaigns' = [e \in Engines |->
                       create_campaign(e, campaigns[e], CrossPlatformData(e, CrossBase))]
    /\ ret' = "created"
    /\ UNCHANGED <<audiences, results, run, history, agg, sel, apivars, threads, sims, batch>>
\* The calls of the tasks, each with ids that exist.
X_CreateAdGroup ==
    /\ GCanCall
    /\ \E cid \in CampaignIds(campaigns[sel]) :
          /\ ApiRoomInCampaign(cid)
          /\ GOutcome(CallCreateAdGroup(campaigns[sel], api_access, now, cid,
                                        [ad_format |-> <<>>]))
X_AddKeyword ==
    /\ GCanCall
    /\ \E uid \in UnitIds(campaigns[sel]) :
          /\ ApiRoomInUnit(uid, "keywords")
          /\ GOutcome(CallAddKeyword(campaigns[sel], api_access, now, uid, "exact", 5))
X_CreateAdSet ==
    /\ sel = "facebook" /\ Quiet
    /\ \E cid \in CampaignIds(campaigns[sel]) :
          /\ ApiRoomInCampaign(cid)
          /\ FOutcome(CallCreateAdSet(campaigns[sel], cid,
                         FAdSetData(<<10 * Money>>, <<>>, <<FNarrow>>, <<>>)))
X_FCreateAd ==
    /\ sel = "facebook" /\ Quiet
    /\ \E uid \in UnitIds(campaigns[sel]) :
          /\ ApiRoomInUnit(uid, "ads")
          /\ FOutcome(CallFCreateAd(campaigns[sel], uid, 10, "approved"))
X_CreateCreative ==
    /\ LCanCall
    /\ \E cid \in CampaignIds(campaigns[sel]) :
          /\ ApiRoomInCampaign(cid)
          /\ LOutcome(CallCreateCreative(campaigns[sel], rate_limits, oauth, now, cid,
                         <<>>, validate_creative_specs(LCreativeData(<<>>)), "approved"))
\* async_batch_update([{"type": "campaign", "id": id, "data": {"budget": v}}])
\* after its sleep: the loop over the updates has no await in it.
X_BatchUpdateBudget ==
    /\ sel = "facebook" /\ Quiet
    /\ \E i \in 1..Len(campaigns[sel]), v \in CrossBudgetDraws :
          /\ campaigns[sel][i].data.budget # <<v>>
          /\ campaigns' = WriteBudget(campaigns, campaigns[sel][i].data.obj, v)
    /\ UNCHANGED <<audiences, results, run, history, agg, sel, ret, apivars, threads, sims, batch>>
\* The scheduler lets the task of another engine take the next step.
A_Switch ==
    /\ \E e \in Engines \ {sel} : sel' = e
    /\ UNCHANGED <<campaigns, audiences, results, run, history, agg, ret, apivars, threads, sims, batch>>

InitTasks ==
    /\ campaigns = [e \in Engines |-> <<>>]
    /\ audiences = [e \in Engines |-> <<>>]
    /\ results = [e \in Engines |-> EmptyResults]
    /\ run = [e \in Engines |-> IdleRun]
    /\ history = {}
    /\ agg = NewAggregator(Engines, 1)
    /\ sel = "google"
    /\ ret = "none"
    /\ InitApi

NextTasks ==
    \/ X_CreateCrossPlatformCampaign
    \/ X_CreateAdGroup \/ X_AddKeyword
    \/ X_CreateAdSet \/ X_FCreateAd \/ X_BatchUpdateBudget
    \/ X_CreateCreative
    \/ G_Start \/ G_Campaign \/ G_Day \/ G_AdGroup \/ G_Keyword
    \/ G_DayEnd \/ G_Store \/ G_Finish
    \/ F_Start \/ F_Campaign \/ F_AdSet \/ F_Ad \/ F_Placement \/ F_Day
    \/ F_AdSetEnd \/ F_Store \/ F_Finish
    \/ A_Switch

SpecTasks == InitTasks /\ [][NextTasks]_vars

(***************************************************************************)
(* A sixth specification: run_simulation called on one search engine by    *)
(* up to MaxThreads callers, at most two of them under way at a time.      *)
(* run[e] holds the locals of the call that is scheduled, threads.waiting  *)
(* those of the call that is not; self.results is the one attribute both   *)
(* calls assign and read.  A call that was under way together with another *)
(* is marked overlapped.                                                   *)
(***************************************************************************)
Live == run["google"].pc # "idle"
Started == Len(threads.waiting) + Len(threads.returned) + (IF Live THEN 1 ELSE 0)

\* A caller enters run_simulation(days): self.results is bound to a new
\* envelope and the locals of _run_platform_simulation are initialised.
O_Call ==
    /\ sel = "google"
    /\ Started < MaxThreads
    /\ threads.waiting = <<>>
    /\ \E days \in 1..MaxDays :
          LET st == GStart(Eng("google"), days) IN
          /\ results' = [results EXCEPT !["google"] = st.r]
          /\ run' = [run EXCEPT !["google"] = st.p @@ [overlapped |-> Live]]
    /\ threads' = IF Live
                  THEN [threads EXCEPT !.waiting =
                           <<[run["google"] EXCEPT !.overlapped = TRUE]>>]
                  ELSE threads
    /\ UNCHANGED <<campaigns, audiences, history, agg, sel, ret, apivars, sims, batch>>
\* The scheduler switches between the two calls under way.
O_Yield ==
    /\ sel = "google"
    /\ threads.waiting # <<>>
    /\ run' = [run EXCEPT !["google"] = threads.waiting[1]]
    /\ threads' = [threads EXCEPT !.waiting = <<run["google"]>>]
    /\ UNCHANGED <<campaigns, audiences, results, history, agg, sel, ret, apivars, sims, batch>>
\* return self.results: the caller gets whatever self.results is bound to.
O_Return ==
    /\ At("google", "done")
    /\ threads' = [waiting |-> <<>>,
                   returned |-> Append(threads.returned,
                                   [days |-> run["google"].days,
                                    overlapped |-> run["google"].overlapped,
                                    total |-> run["google"].total,
                                    envelope |-> results["google"]])]
    /\ run' = [run EXCEPT !["google"] = IF threads.waiting = <<>> THEN IdleRun
                                        ELSE threads.waiting[1]]
    /\ UNCHANGED <<campaigns, audiences, results, history, agg, sel, ret, apivars, sims, batch>>

InitOverlap ==
    /\ sel = "google"
    /\ campaigns = [e \in Engines |->
                      IF e = sel
                      THEN GOneKeyword(GData(<<1>>, <<>>), <<"shopping">>, <<10, "broad">>)
                      ELSE <<>>]
    /\ audiences = [e \in Engines |-> <<>>]
    /\ results = [e \in Engines |-> EmptyResults]
    /\ run = [e \in Engines |-> IdleRun]
    /\ history = {}
    /\ agg = NewAggregator({sel}, 1)
    /\ ret = "none"
    /\ InitApi

NextOverlap ==
    \/ O_Call \/ O_Yield \/ O_Return
    \/ G_Campaign \/ G_Day \/ G_AdGroup \/ G_Keyword
    \/ G_DayEnd \/ G_Store \/ G_Finish

SpecOverlap == InitOverlap /\ [][NextOverlap]_vars

(***************************************************************************)
(* A seventh specification: one run of the reach engine over one campaign  *)
(* with one ad set and one ad, the ad set's targeting drawn from the       *)
(* configurations create_ad_set accepts (it validates nothing).  The ad of *)
(* an ad set with a reach above MaxServedReach is still in review, which   *)
(* keeps the amounts of the run within the integers of the checker.        *)
(***************************************************************************)
FTargetingDraws ==
    {<<>>} \cup
    { <<[age_min |-> lo, age_max |-> hi, gender |-> g, locations |-> l,
         interests |-> i]>> :
        lo \in {<<>>, <<18>>, <<70>>}, hi \in {<<>>, <<65>>}, g \in {"all", "male"},
        l \in {0, 1, 5, 6}, i \in {0, 5, 10, 11} }

InitReach ==
    /\ sel = "facebook"
    /\ \E t \in FTargetingDraws :
          LET data == FAdSetData(<<10 * Money>>, <<>>, t, <<>>)
              review == IF FAudienceReach(data) <= MaxServedReach
                        THEN "approved" ELSE "pending_review"
          IN  campaigns = [e \in Engines |->
                             IF e = sel
                             THEN FOneAd(FData(<<>>, <<>>), data, 10, review)
                             ELSE <<>>]
    /\ audiences = [e \in Engines |-> <<>>]
    /\ results = [e \in Engines |-> EmptyResults]
    /\ run = [e \in Engines |-> IdleRun]
    /\ history = {}
    /\ agg = NewAggregator({sel}, 1)
    /\ ret = "none"
    /\ InitApi

NextReach ==
    \/ F_Start \/ F_Campaign \/ F_AdSet \/ F_Ad \/ F_Placement \/ F_Day
    \/ F_AdSetEnd \/ F_Store \/ F_Finish
    \/ A_Return

SpecReach == InitReach /\ [][NextReach]_vars

(***************************************************************************)
(* POST /simulations and GET /simulations/{id}/status.  The request hands  *)
(* run_simulation_task to the background tasks of the response; the task   *)
(* is a coroutine without an await, so the event loop serves no request    *)
(* between its first and its last statement.  sims.status_file and         *)
(* sims.error_file are {id}_status.json and {id}_error.json, sims.seen is  *)
(* what the last status request answered.                                  *)
(***************************************************************************)
NotScheduled == [pc |-> "unscheduled"]

\* run_simulation: the response carries PENDING, no file is written.
P_RunSimulation ==
    /\ sims.task = "none"
    /\ \E platforms \in PlatformDraws, days \in 1..MaxAggDays :
          agg' = NewAggregator(platforms, days)
    /\ sims' = [sims EXCEPT !.task = "pending", !.seen = "pending"]
    /\ UNCHANGED <<campaigns, audiences, results, run, history, sel, ret,
                   apivars, threads, batch>>

\* run_simulation_task up to the call of run_campaigns: the status file is
\* written with RUNNING.
T_Begin ==
    /\ sims.task = "pending"
    /\ sims' = [sims EXCEPT !.task = "running", !.status_file = "running"]
    /\ run' = [e \in Engines |-> IdleRun]
    /\ sel' = FirstPlatform(agg.platforms)
    /\ UNCHANGED <<campaigns, audiences, results, history, agg, ret, apivars,
                   threads, batch>>

\* run_campaigns has returned: the results file and then the status file with
\* COMPLETED are written.
T_Complete ==
    /\ sims.task = "running"
    /\ CallReturned
    /\ sims' = [sims EXCEPT !.task = "completed", !.status_file = "completed"]
    /\ UNCHANGED <<campaigns, audiences, results, run, history, agg, sel, ret,
                   apivars, threads, batch>>

\* The except clause: run_campaigns has raised, the error file is written and
\* the status file is left as it is.
T_Except ==
    /\ sims.task = "running"
    /\ CallRaised
    /\ sims' = [sims EXCEPT !.task = "failed", !.error_file = TRUE]
    /\ UNCHANGED <<campaigns, audiences, results, run, history, agg, sel, ret,
                   apivars, threads, batch>>

\* get_simulation_status on the files as they are: the status of the status
\* file if there is one, else 500 for an error file, else 404.
StatusOf(f) ==
    IF f.status_file # "absent" THEN f.status_file
    ELSE IF f.error_file THEN "failed"
    ELSE "not_found"
\* The request is served when the event loop is not inside the task.
P_GetSimulationStatus ==
    /\ sims.task # "running"
    /\ sims' = [sims EXCEPT !.seen = StatusOf(sims)]
    /\ UNCHANGED <<campaigns, audiences, results, run, history, agg, sel, ret,
                   apivars, threads, batch>>

InitSim ==
    /\ sel = "google"
    /\ agg = NewAggregator({}, 1)
    /\ campaigns \in [Engines -> UNION {SmallScenarios(e) : e \in Engines}]
    /\ \A e \in Engines : campaigns[e] \in SmallScenarios(e)
    /\ audiences = [e \in Engines |-> <<>>]
    /\ results = [e \in Engines |-> EmptyResults]
    /\ run = [e \in Engines |-> NotScheduled]
    /\ history = {}
    /\ ret = "none"
    /\ InitApi

\* The statements of the task, run_campaigns and the engines' runs included.
SimTask ==
    \/ T_Begin \/ T_Complete \/ T_Except
    \/ G_Start \/ G_Campaign \/ G_Day \/ G_AdGroup \/ G_Keyword
    \/ G_DayEnd \/ G_Store \/ G_Finish
    \/ F_Start \/ F_Campaign \/ F_AdSet \/ F_Ad \/ F_Placement \/ F_Day
    \/ F_AdSetEnd \/ F_Store \/ F_Finish
    \/ L_Start \/ L_Campaign \/ L_Day \/ L_Creative \/ L_DayEnd \/ L_Store
    \/ L_Finish
    \/ A_Return

NextSim ==
    \/ P_RunSimulation \/ P_GetSimulationStatus
    \/ T_Begin \/ T_Complete \/ T_Except
    \/ G_Start \/ G_Campaign \/ G_Day \/ G_AdGroup \/ G_Keyword
    \/ G_DayEnd \/ G_Store \/ G_Finish
    \/ F_Start \/ F_Campaign \/ F_AdSet \/ F_Ad \/ F_Placement \/ F_Day
    \/ F_AdSetEnd \/ F_Store \/ F_Finish
    \/ L_Start \/ L_Campaign \/ L_Day \/ L_Creative \/ L_DayEnd \/ L_Store
    \/ L_Finish
    \/ A_Return

\* A scheduled background task runs, and a task that runs reaches its last
\* statement: the event loop is weakly fair to the task.
SpecSim == InitSim /\ [][NextSim]_vars /\ WF_vars(SimTask)

(***************************************************************************)
(* async_batch_update of the reach engine.  The coroutine sleeps before     *)
(* its loop, so other calls on the engine are served between the call and   *)
(* the loop; the loop itself has no await.  An update is a record of its    *)
(* type, its id and its data, data = <<>> for an update without that key.   *)
(***************************************************************************)
MaxBatch == 2

\* The ad of the hierarchy with the given id, <<0, 0, 0>> when there is none.
FindAd(cs, aid) ==
    LET hits == {<<i, j, k>> : i \in 1..Len(cs), j \in 1..MaxUnits + 1,
                               k \in 1..MaxLeaves + 1}
        at(t) == /\ t[2] <= Len(cs[t[1]].units)
                 /\ t[3] <= Len(cs[t[1]].units[t[2]].ads)
                 /\ cs[t[1]].units[t[2]].ads[t[3]].id = aid
    IN  IF \E t \in hits : at(t) THEN CHOOSE t \in hits : at(t) ELSE <<0, 0, 0>>

\* Whether the loops of the update's type find a node with the update's id.
Matches(cs, u) ==
    CASE u.type = "campaign" -> FindCampaign(cs, u.id) # 0
      [] u.type = "ad_set" -> FindUnit(cs, u.id) # <<0, 0>>
      [] u.type = "ad" -> FindAd(cs, u.id) # <<0, 0, 0>>
      [] OTHER -> FALSE

\* The assignments of the matched node: status and budget for a campaign and
\* an ad set, status alone for an ad.
UpdateNode(cs, u) ==
    LET d == u.data[1]
        st(x) == IF d.status # <<>> THEN d.status[1] ELSE x
    IN  CASE u.type = "campaign" ->
               LET i == FindCampaign(cs, u.id)
               IN  [cs EXCEPT ![i].status = st(@),
                              ![i].data.budget = IF d.budget # <<>> THEN d.budget ELSE @]
          [] u.type = "ad_set" ->
               LET q == FindUnit(cs, u.id)
               IN  [cs EXCEPT ![q[1]].units[q[2]].status = st(@),
                              ![q[1]].units[q[2]].data.budget =
                                  IF d.budget # <<>> THEN d.budget ELSE @]
          [] u.type = "ad" ->
               LET t == FindAd(cs, u.id)
               IN  [cs EXCEPT ![t[1]].units[t[2]].ads[t[3]].status = st(@)]

\* One pass of `for update in updates`: a matched node is assigned and the
\* update appended to success; an unknown type is appended to failed; the
\* KeyError of update["data"] on a matched node is caught, and reported as
\* failed only when random.random() < 0.05 (fail); an update that matches
\* no node falls out of the loops without a report.
BatchEntry(u) == [id |-> u.id, type |-> u.type]
BatchStep(b, u, fail) ==
    IF u.type \notin {"campaign", "ad_set", "ad"}
    THEN [b EXCEPT !.failed = Append(@, BatchEntry(u))]
    ELSE IF ~Matches(b.c, u) THEN b
    ELSE IF u.data = <<>>
         THEN IF fail THEN [b EXCEPT !.failed = Append(@, BatchEntry(u))] ELSE b
    ELSE [b EXCEPT !.c = UpdateNode(b.c, u), !.success = Append(@, BatchEntry(u))]

RECURSIVE BatchUpdate(_, _, _)
BatchUpdate(b, updates, fails) ==
    IF updates = <<>> THEN b
    ELSE BatchUpdate(BatchStep(b, Head(updates), Head(fails)), Tail(updates),
                     Tail(fails))

\* The updates a caller passes: of each type with the id of a node of that
\* type or with an id of no node, one of an unknown type, and one without
\* the data key.
SetStatus == <<[status |-> <<"paused">>, budget |-> <<>>]>>
SetBudget == <<[status |-> <<>>, budget |-> <<5 * Money>>]>>
UpdateDraws(cs) ==
    LET cid == cs[1].id
        sid == cs[1].units[1].id
        aid == cs[1].units[1].ads[1].id
    IN  {[type |-> t, id |-> i, data |-> d] :
            t \in {"campaign"}, i \in {cid, NoSuchId}, d \in {SetStatus, SetBudget}}
        \cup {[type |-> "ad_set", id |-> i, data |-> SetBudget] : i \in {sid, NoSuchId}}
        \cup {[type |-> "ad", id |-> aid, data |-> SetStatus],
              [type |-> "page", id |-> cid, data |-> SetStatus],
              [type |-> "campaign", id |-> cid, data |-> <<>>]}
BatchDraws(cs) ==
    UNION {[1..n -> UpdateDraws(cs)] : n \in 1..MaxBatch}

\* async_batch_update(updates) up to its sleep.
B_AsyncBatchUpdate ==
    /\ sel = "facebook"
    /\ batch.pc # "sleeping"
    /\ \E updates \in BatchDraws(campaigns[sel]) :
          batch' = [pc |-> "sleeping", updates |-> updates,
                    result |-> [success |-> <<>>, failed |-> <<>>]]
    /\ UNCHANGED <<campaigns, audiences, results, run, history, agg, sel, ret,
                   apivars, threads, sims>>

\* The loop over the updates and the return, once the event loop is free.
B_Resume ==
    /\ sel = "facebook" /\ Quiet
    /\ batch.pc = "sleeping"
    /\ \E fails \in [1..Len(batch.updates) -> BOOLEAN] :
          LET b == BatchUpdate([c |-> campaigns[sel], success |-> <<>>,
                                failed |-> <<>>], batch.updates, fails)
          IN  /\ campaigns' = [campaigns EXCEPT ![sel] = b.c]
              /\ batch' = [pc |-> "returned", updates |-> batch.updates,
                           result |-> [success |-> b.success, failed |-> b.failed]]
    /\ UNCHANGED <<audiences, results, run, history, agg, sel, ret, apivars,
                   threads, sims>>

InitBatch ==
    /\ sel = "facebook"
    /\ campaigns = [e \in Engines |->
                      IF e = sel
                      THEN FOneAd(FData(<<10 * Money>>, <<>>),
                                  FAdSetData(<<10 * Money>>, <<>>, <<FNarrow>>, <<>>),
                                  10, "approved")
                      ELSE <<>>]
    /\ audiences = [e \in Engines |-> <<>>]
    /\ results = [e \in Engines |-> EmptyResults]
    /\ run = [e \in Engines |-> IdleRun]
    /\ history = {}
    /\ agg = NewAggregator({sel}, 1)
    /\ ret = "none"
    /\ InitApi

NextBatch ==
    \/ B_AsyncBatchUpdate \/ B_Resume
    \/ F_Start \/ F_Campaign \/ F_AdSet \/ F_Ad \/ F_Placement \/ F_Day
    \/ F_AdSetEnd \/ F_Store \/ F_Finish
    \/ A_Return

SpecBatch == InitBatch /\ [][NextBatch]_vars

(***************************************************************************)
(* Properties.                                                             *)
(***************************************************************************)
\* The campaign the run of engine e is working on.
Current(e) == campaigns[e][run[e].ci]
InLoop(e, pcs) == run[e].pc \in pcs

\* The records of the results of engine e: the campaign entries and the totals.
Records(e) ==
    IF results[e].empty THEN {}
    ELSE {results[e].campaigns[i] : i \in 1..Len(results[e].campaigns)}
         \cup {results[e].total_metrics}

\* C1: in every engine the innermost budget scope is never exceeded: the
\* search engine's spend of the simulated day stays within daily_budget, the
\* reach engine's accumulated ad-set spend within the ad set's budget, and
\* the network engine's spend of the simulated day within daily_budget.
C1_InnermostBudget ==
    /\ InLoop("google", {"adgroup", "kw", "dayend"}) =>
          run["google"].daily.spend <= GDailyBudget(Current("google"))
    /\ InLoop("facebook", {"ad", "placement", "dayloop", "adsetend"}) =>
          run["facebook"].aset.spend <=
              FAdSetBudget(Current("facebook"),
                           Current("facebook").units[run["facebook"].si])
    /\ \A i \in 1..Len(campaigns["facebook"]) :
          \A j \in 1..Len(campaigns["facebook"][i].units) :
              campaigns["facebook"][i].units[j].metrics.spend <=
                  FAdSetBudget(campaigns["facebook"][i], campaigns["facebook"][i].units[j])
    /\ InLoop("linkedin", {"creative", "dayend"}) =>
          run["linkedin"].daily.spend <= LDailyBudget(Current("linkedin"))

\* C1 witness: a day of the search engine whose spend was scaled down to a
\* positive daily budget.
C1_Witness ==
    /\ InLoop("google", {"dayend"})
    /\ run["google"].daily.spend = GDailyBudget(Current("google"))
    /\ run["google"].daily.spend > 0
    /\ run["google"].daily.clicks > 0

\* C2: in the network engine the campaign's cumulative spend, after every
\* creative of every simulated day, is at most its total_budget.
C2_NetworkTotalBudget ==
    /\ InLoop("linkedin", {"creative", "dayend"}) =>
          run["linkedin"].camp.spend + run["linkedin"].daily.spend
              <= LTotalBudget(Current("linkedin"), run["linkedin"].days)
    /\ InLoop("linkedin", {"day", "store"}) =>
          run["linkedin"].camp.spend
              <= LTotalBudget(Current("linkedin"), run["linkedin"].days)

\* C3: in the search engine the cumulative spend of a campaign configured
\* with total_budget never exceeds total_budget.
C3_SearchTotalBudget ==
    /\ InLoop("google", {"adgroup", "kw", "dayend"}) =>
          \/ Current("google").data.total_budget = <<>>
          \/ run["google"].camp.spend + run["google"].daily.spend
                <= Current("google").data.total_budget[1]
    /\ InLoop("google", {"day", "store"}) =>
          \/ Current("google").data.total_budget = <<>>
          \/ run["google"].camp.spend <= Current("google").data.total_budget[1]

\* C4: in the reach engine the spend reported for a campaign (the sum over
\* its ad sets) is at most the campaign's configured budget.
C4_ReachCampaignBudget ==
    ~results["facebook"].empty =>
        \A i \in 1..Len(results["facebook"].campaigns) :
            results["facebook"].campaigns[i].spend <=
                FCampaignBudget(campaigns["facebook"][
                    FindCampaign(campaigns["facebook"],
                                 results["facebook"].campaigns[i].id)])

\* Non-negative metrics with clicks <= impressions and conversions <= clicks.
Sane(m) ==
    /\ m.impressions >= 0 /\ m.clicks >= 0 /\ m.conversions >= 0 /\ m.spend >= 0
    /\ m.clicks <= m.impressions
    /\ m.conversions <= m.clicks

\* C5: every per-unit, per-campaign and total record has impressions,
\* clicks, conversions and spend >= 0, clicks <= impressions and
\* conversions <= clicks.
C5_SaneRecords ==
    /\ \A e \in Engines : \A m \in Records(e) : Sane(m)
    /\ \A i \in 1..Len(campaigns["facebook"]) :
          \A j \in 1..Len(campaigns["facebook"][i].units) :
              /\ Sane(campaigns["facebook"][i].units[j].metrics)
              /\ \A k \in 1..Len(campaigns["facebook"][i].units[j].ads) :
                    Sane(campaigns["facebook"][i].units[j].ads[k].metrics)

\* ctr and cpa of a record are the guarded quotients of its own sums.
RatiosAgree(m) ==
    /\ m.ctr = (IF m.impressions = 0 THEN Zero ELSE Frac(m.clicks, m.impressions))
    /\ m.cpa = (IF m.conversions = 0 THEN Zero ELSE Frac(m.spend, m.conversions))

C7_FiniteRatios ==
    /\ \A e \in Engines : \A m \in Records(e) : m.ctr # Inf /\ m.cpa # Inf
    /\ \A e \in {"google", "facebook"} : ~results[e].empty =>
          \A i \in 1..Len(results[e].campaigns) : results[e].campaigns[i].roas # Inf
    /\ \A e \in Engines :
          (~results[e].empty /\ results[e].optimizations # <<>>) =>
              \A pf \in FPlatforms :
                  LET pm == results[e].optimizations[1].platform_allocation
                                .platform_metrics[pf]
                  IN  pm.ctr # Inf /\ pm.cpa # Inf /\ pm.cpm # Inf

\* The ids of the hierarchy of engine e, level by level.
UnitKind(e) ==
    CASE e = "google" -> "ag" [] e = "facebook" -> "as" [] e = "linkedin" -> "cr"
Keywords(e, u) == IF e = "google" THEN u.keywords ELSE <<>>
Ads(e, u) == IF e = "linkedin" THEN <<>> ELSE u.ads
IdsOf(q) == {q[k].id : k \in 1..Len(q)}
AllIds(e) ==
    CampaignIds(campaigns[e]) \cup UnitIds(campaigns[e])
    \cup UNION {UNION {IdsOf(Keywords(e, campaigns[e][i].units[j]))
                         \cup IdsOf(Ads(e, campaigns[e][i].units[j])) :
                       j \in 1..Len(campaigns[e][i].units)} :
                i \in 1..Len(campaigns[e])}
RECURSIVE NodeCount(_, _)
NodeCount(e, q) ==
    IF q = <<>> THEN 0
    ELSE 1 + Len(Head(q).units)
           + SumSeq([j \in 1..Len(Head(q).units) |->
                        Len(Keywords(e, Head(q).units[j])) + Len(Ads(e, Head(q).units[j]))])
           + NodeCount(e, Tail(q))

\* The k-th node of each list carries its parent's id, its kind and k.
Numbered(e) ==
    \A i \in 1..Len(campaigns[e]) :
        LET c == campaigns[e][i] IN
        /\ c.id = <<PlatformName(e), "-">> \o Digits(i)
        /\ \A j \in 1..Len(c.units) :
              LET u == c.units[j] IN
              /\ u.id = c.id \o <<"-", UnitKind(e), "-">> \o Digits(j)
              /\ \A k \in 1..Len(Keywords(e, u)) :
                    Keywords(e, u)[k].id = u.id \o <<"-", "kw", "-">> \o Digits(k)
              /\ \A k \in 1..Len(Ads(e, u)) :
                    Ads(e, u)[k].id = u.id \o <<"-", "ad", "-">> \o Digits(k)
Distinct(e) == Cardinality(AllIds(e)) = NodeCount(e, campaigns[e])

\* C8: after every step of any sequence of creation calls, failed calls and
\* deactivations, the ids of the engine are pairwise distinct, the k-th
\* campaign is '{platform}-k' and the k-th unit under a parent is
\* '{parent id}-{kind}-k', every id assigned before is still assigned to its
\* node, and a call that raised assigned none.
C8_Ids ==
    [][/\ \A e \in Engines : Numbered(e)' /\ Distinct(e)' /\ AllIds(e) \subseteq AllIds(e)'
       /\ (ret' = "raised" /\ ret # "raised") => AllIds(sel)' = AllIds(sel)]_vars

\* C8 witness: two campaigns of the search engine with two ad groups each,
\* one of them paused, one holding two keywords and two ads, reached by a
\* call that raised.
C8_Witness ==
    /\ sel = "google" /\ ret = "raised"
    /\ Len(campaigns["google"]) = 2
    /\ \A i \in 1..2 : Len(campaigns["google"][i].units) = 2
    /\ campaigns["google"][1].units[1].status = "paused"
    /\ Len(campaigns["google"][2].units[1].keywords) = 2
    /\ Len(campaigns["google"][2].units[1].ads) = 2
    /\ Len(campaigns["google"][1].units[2].keywords) = 1

Finished(e) == run[e].pc \in {"done", "returned"}

\* C9: after a run, a campaign whose status is not active has a record of
\* all-zero metrics in the results, and the totals are the sums over the
\* records of the active campaigns.
C9_InactiveCampaigns ==
    \A e \in Engines : Finished(e) =>
        /\ \A i \in 1..Len(campaigns[e]) :
              campaigns[e][i].status # "active" =>
                  /\ HasEntry(results[e], campaigns[e][i].id)
                  /\ Entry(results[e], campaigns[e][i].id).impressions = 0
                  /\ Entry(results[e], campaigns[e][i].id).clicks = 0
                  /\ Entry(results[e], campaigns[e][i].id).conversions = 0
                  /\ Entry(results[e], campaigns[e][i].id).spend = 0
        /\ results[e].total_metrics.spend =
              SumSeq([i \in 1..Len(campaigns[e]) |->
                  IF campaigns[e][i].status = "active"
                     /\ HasEntry(results[e], campaigns[e][i].id)
                  THEN Entry(results[e], campaigns[e][i].id).spend ELSE 0])

\* Whether a leaf may serve: active and, where it has one, approved.
Eligible(x) ==
    /\ x.status = "active"
    /\ "review_status" \in DOMAIN x => x.review_status = "approved"
    /\ "approval_status" \in DOMAIN x => x.approval_status = "approved"
\* An ad group that is active with at least one eligible keyword.
GServing(u) ==
    /\ u.status = "active"
    /\ \E k \in 1..Len(u.keywords) : Eligible(u.keywords[k])

\* C10: units that are not active or not approved contribute nothing: a
\* campaign of the search engine none of whose ad groups has an eligible
\* keyword serves nothing, an ad set of the reach engine without an eligible
\* ad and every ineligible ad of it have zero metrics, and the network
\* engine records a campaign only when it has an eligible creative.
C10_IneligibleUnits ==
    /\ (InLoop("google", {"day", "adgroup", "kw", "dayend", "store"})
        /\ \A j \in 1..Len(Current("google").units) :
              ~GServing(Current("google").units[j]))
          => run["google"].daily = ZeroMetrics /\ run["google"].camp = ZeroMetrics
    /\ \A i \in 1..Len(campaigns["facebook"]) :
          \A j \in 1..Len(campaigns["facebook"][i].units) :
              LET u == campaigns["facebook"][i].units[j] IN
              /\ (u.status # "active" \/ \A k \in 1..Len(u.ads) : ~Eligible(u.ads[k]))
                    => u.metrics = ZeroMetrics
              /\ \A k \in 1..Len(u.ads) :
                    (u.status # "active" \/ ~Eligible(u.ads[k]))
                        => u.ads[k].metrics = ZeroMetrics
    /\ ~results["linkedin"].empty =>
          \A i \in 1..Len(results["linkedin"].campaigns) :
              \E k \in 1..Len(campaigns["linkedin"][i].units) :
                  Eligible(campaigns["linkedin"][i].units[k])

\* C11: run_simulation never raises on any engine: no run ends in an
\* exception, whatever the hierarchy, budgets, audience or draws.
C11_NeverRaises == \A e \in Engines : run[e].pc # "raised"

\* The nodes of the hierarchy of engine e: every campaign with its status,
\* its data and its sub-units and their leaf units.
Nodes(e) ==
    [i \in 1..Len(campaigns[e]) |->
        [id |-> campaigns[e][i].id, status |-> campaigns[e][i].status,
         data |-> campaigns[e][i].data, units |-> campaigns[e][i].units]]

\* The id the next sub-unit or leaf unit of each parent of engine e receives.
NextIds(e) ==
    UNION {{ChildId(campaigns[e][i].id, UnitKind(e), Len(campaigns[e][i].units) + 1)}
           \cup UNION {{ChildId(campaigns[e][i].units[j].id, "kw",
                                Len(Keywords(e, campaigns[e][i].units[j])) + 1),
                        ChildId(campaigns[e][i].units[j].id, "ad",
                                Len(Ads(e, campaigns[e][i].units[j])) + 1)} :
                       j \in 1..Len(campaigns[e][i].units)} :
           i \in 1..Len(campaigns[e])}

\* C12: a creation call that fails with a not-found or a validation error
\* adds no unit to any campaign and leaves the id of the next unit of every
\* parent as it was, and every unit that is created receives the id that
\* was next under its parent, so the id a failed call would have assigned
\* goes to the next successful creation under that parent.
C12_FailedCreation ==
    [][/\ (ret # "raised" /\ ret' = "raised" /\ err' \in {"not_found", "validation"})
            => /\ \A e \in Engines : Nodes(e)' = Nodes(e)
               /\ NextIds(sel)' = NextIds(sel)
       /\ (AllIds(sel)' \ AllIds(sel)) \ CampaignIds(campaigns[sel])' \subseteq NextIds(sel)
      ]_vars

\* C12 witness: a creative of the network engine has just failed its
\* validation under a campaign that already holds an accepted creative.
C12_Witness ==
    /\ sel = "linkedin"
    /\ ret = "raised" /\ err = "validation"
    /\ Len(campaigns["linkedin"]) = 2
    /\ Len(campaigns["linkedin"][1].units) = 1
    /\ Len(campaigns["linkedin"][2].units) = 0
    /\ campaigns["linkedin"][2].has_units

\* The management operations of the search engine, and the steps of its
\* run_simulation.
GManagement ==
    \/ M_CreateAdGroup \/ M_AddKeyword \/ M_GCreateAd
    \/ M_Search \/ M_GenerateRecommendations \/ M_GetChangeHistory
GRunStep ==
    \/ G_Start \/ G_Campaign \/ G_Day \/ G_AdGroup \/ G_Keyword
    \/ G_DayEnd \/ G_Store \/ G_Finish
\* operations_used has reached the daily quota and the date of the last
\* reset is still today.
GExhausted ==
    /\ Date(now) <= api_access.last_quota_reset
    /\ api_access.daily_quota # Inf
    /\ api_access.operations_used >= api_access.daily_quota[1]

\* C13: in the search engine, while operations_used has reached daily_quota
\* and the date has not advanced, every management operation raises the
\* quota error and changes neither the hierarchy nor the counter; on the
\* first management operation of a later date the counter restarts from 0
\* and the operation is not refused; no step of run_simulation raises the
\* quota error or changes operations_used.
C13_Quota ==
    [][/\ (GManagement /\ GExhausted) =>
             /\ err' = "quota_exceeded"
             /\ campaigns' = campaigns
             /\ api_access' = api_access
       /\ (GManagement /\ Date(now) > api_access.last_quota_reset) =>
             /\ err' # "quota_exceeded"
             /\ api_access'.operations_used = 0 + 1
             /\ api_access'.last_quota_reset = Date(now)
       /\ (GManagement /\ err' = "quota_exceeded") => GExhausted
       /\ GRunStep => err' = err /\ api_access' = api_access
      ]_vars

\* C13 witness: an ad group was created with the last operation of the
\* quota and the next operation was refused.
C13_Witness ==
    /\ sel = "google"
    /\ err = "quota_exceeded"
    /\ api_access.operations_used = GDailyQuota
    /\ Len(campaigns["google"][1].units) = 1
    /\ Len(campaigns["google"][1].units[1].keywords) = 0

\* The access token has expired; the call about to be made stays within the
\* rate limits.
LExpired == now > oauth.expires_at
LWithinLimits == check_rate_limits(rate_limits, now).ok
LCreatives == [i \in 1..Len(campaigns["linkedin"]) |-> campaigns["linkedin"][i].units]

HeldSum(field) ==
    SumSeq([k \in 1..3 |->
               IF agg.results[PlatformOrder[k]].empty THEN 0
               ELSE agg.results[PlatformOrder[k]].total_metrics[field]])

\* C15: after every run_campaigns call, however it ended, the combined
\* total_metrics exist and their impressions, clicks, conversions and spend
\* are the sums of the total_metrics of the google, facebook and linkedin
\* results the aggregator holds, with ctr and cpa derived from those sums.
C15_CombinedSums ==
    (CallReturned \/ CallRaised) =>
        /\ agg.combined # <<>>
        /\ \A f \in {"impressions", "clicks", "conversions", "spend"} :
              agg.combined[1].total_metrics[f] = HeldSum(f)
        /\ agg.combined[1].total_metrics.ctr
              = SafeRatio(HeldSum("clicks"), HeldSum("impressions"))
        /\ agg.combined[1].total_metrics.cpa
              = SafeRatio(HeldSum("spend"), HeldSum("conversions"))
\* C16: the engines share nothing: a step taken by the task of one engine
\* (a creation call, a budget update, a step of its run_simulation) leaves
\* the campaigns, the audiences, the results and the run of every other
\* engine as they were, whatever the interleaving; only the aggregator's own
\* cross-platform creation touches more than one engine.
OthersUntouched ==
    \A e \in Engines \ {sel} :
       /\ campaigns'[e] = campaigns[e]
       /\ audiences'[e] = audiences[e]
       /\ results'[e] = results[e]
       /\ run'[e] = run[e]
EnvelopeSum(env, field) ==
    SumSeq([i \in 1..Len(env.campaigns) |-> env.campaigns[i][field]])
OwnEnvelope(rec) ==
    /\ rec.envelope.period = rec.days
    /\ \A f \in {"impressions", "clicks", "conversions", "spend"} :
          /\ rec.envelope.total_metrics[f] = rec.total[f]
          /\ EnvelopeSum(rec.envelope, f) = rec.total[f]
    /\ {rec.envelope.campaigns[i].id : i \in 1..Len(rec.envelope.campaigns)}
         = {campaigns["google"][i].id :
               i \in {j \in 1..Len(campaigns["google"]) :
                         campaigns["google"][j].status = "active"}}
C17_Serialised ==
    \A k \in 1..Len(threads.returned) :
       ~threads.returned[k].overlapped => OwnEnvelope(threads.returned[k])
\* A first call has returned alone, and of two later calls that overlapped
\* one has returned the envelope the other had reset for its own period.
C17_Witness ==
    /\ Len(threads.returned) >= 2
    /\ ~threads.returned[1].overlapped
    /\ threads.returned[1].total.impressions > 0
    /\ threads.returned[1].total.spend > 0
    /\ threads.returned[2].overlapped
    /\ threads.returned[2].envelope.period # threads.returned[2].days

\* C18: after run_simulation the metrics accumulator of every simulated
\* campaign node holds the impressions, clicks, conversions and spend of the
\* campaign's entry in results.campaigns.
C18_NodeMetrics ==
    \A e \in Engines :
       run[e].pc \in {"done", "returned"} /\ ~results[e].empty =>
          \A i \in 1..Len(campaigns[e]) : \A k \in 1..Len(results[e].campaigns) :
             results[e].campaigns[k].id = campaigns[e][i].id =>
                \A f \in {"impressions", "clicks", "conversions", "spend"} :
                   campaigns[e][i].metrics[f] = results[e].campaigns[k][f]

\* C19: run_simulation changes nothing in the hierarchy except metrics: no
\* step of a run on any engine adds or removes a campaign, a sub-unit or a
\* leaf unit, or changes a node's id, status, quality or relevance score,
\* review or approval status or configured data (budgets included).
Bare(n) == IF "metrics" \in DOMAIN n THEN [n EXCEPT !.metrics = ZeroMetrics] ELSE n
BareUnit(u) ==
    Bare(IF "ads" \in DOMAIN u
         THEN [u EXCEPT !.ads = [k \in 1..Len(u.ads) |-> Bare(u.ads[k])]]
         ELSE u)
BareCampaigns(cs) ==
    [i \in 1..Len(cs) |->
       Bare([cs[i] EXCEPT !.units = [j \in 1..Len(cs[i].units) |->
                                        BareUnit(cs[i].units[j])]])]
C19_Frame ==
    [][\A e \in Engines : BareCampaigns(campaigns'[e]) = BareCampaigns(campaigns[e])]_vars
\* A run has finished that wrote metrics into an ad set and its ad.
C19_Witness ==
    /\ run["facebook"].pc = "done"
    /\ \E i \in 1..Len(campaigns["facebook"]) :
         \E j \in 1..Len(campaigns["facebook"][i].units) :
            /\ campaigns["facebook"][i].units[j].metrics.spend > 0
            /\ \E k \in 1..Len(campaigns["facebook"][i].units[j].ads) :
                  campaigns["facebook"][i].units[j].ads[k].metrics.impressions > 0

\* C20: in the search engine, once a campaign's spend for a simulated day
\* has reached its daily budget, no keyword of the campaign processed later
\* on that day, in the same or in another ad group, adds impressions, clicks,
\* conversions or spend to the day's record.
GBudgetReached ==
    /\ run["google"].pc \in {"kw", "adgroup"}
    /\ run["google"].daily.spend >= GDailyBudget(campaigns["google"][run["google"].ci])
C20_DayClosed ==
    [][GBudgetReached /\ run'["google"].pc \in {"kw", "adgroup", "dayend"}
         => run'["google"].daily = run["google"].daily]_vars

\* C21: in every engine, when a unit's computed spend would exceed the
\* remaining budget, the recorded spend is the remaining budget and the
\* recorded impressions, clicks and conversions are the computed ones scaled
\* by remaining budget / computed spend (in the reach and the network engine
\* the conversions are those of the scaled clicks).
ScaledBy(x, remaining, spend) == IntDiv(x * remaining, spend)
GScaledStep(u, r1, r2) ==
    LET p == run["google"]
        c == campaigns["google"][p.ci]
        ag == c.units[p.agi]
        raw == GKeywordRaw(ag.keywords[p.kwi], Get(ag.data.ad_format, "search"),
                           u, r1, r2)
        remaining == GDailyBudget(c) - p.daily.spend
    IN  /\ raw.spend > remaining
        /\ run'["google"].daily =
             AddMetrics(p.daily, GApplyDailyBudget(raw, p.daily.spend, GDailyBudget(c)))
        => run'["google"].daily =
             AddMetrics(p.daily,
                [impressions |-> ScaledBy(raw.impressions, remaining, raw.spend),
                 clicks |-> ScaledBy(raw.clicks, remaining, raw.spend),
                 conversions |-> ScaledBy(raw.conversions, remaining, raw.spend),
                 spend |-> remaining])
FScaledStep(df, iv, cv, mv) ==
    LET p == run["facebook"]
        c == campaigns["facebook"][p.ci]
        a == c.units[p.si]
        ad == a.ads[p.ai]
        aud == FAudience(audiences["facebook"], Get(a.data.audience, "default"))
        raw == FDailyRaw(FAudienceReach(a.data), FPlacement(FPlacements(a.data)[p.pi]),
                         aud, ad.relevance_score, df, iv, cv, mv)
        remaining == FAdSetBudget(c, a) - p.aset.spend
        clicks == ScaledBy(raw.clicks, remaining, raw.spend)
    IN  /\ raw.spend > remaining
        /\ LET m == FApplyBudget(raw, p.aset.spend, FAdSetBudget(c, a)) IN
           run'["facebook"].aset =
             AddMetrics(p.aset,
                [impressions |-> m.impressions, clicks |-> m.clicks,
                 conversions |-> FConversions(m.clicks, aud,
                                    Get(c.data.objective, "CONVERSIONS"),
                                    ad.relevance_score),
                 spend |-> m.spend])
        => run'["facebook"].aset =
             AddMetrics(p.aset,
                [impressions |-> ScaledBy(raw.impressions, remaining, raw.spend),
                 clicks |-> clicks,
                 conversions |-> FConversions(clicks, aud,
                                    Get(c.data.objective, "CONVERSIONS"),
                                    ad.relevance_score),
                 spend |-> remaining])
LScaledStep(q, cv, pv) ==
    LET p == run["linkedin"]
        c == campaigns["linkedin"][p.ci]
        raw == LCreativeRaw(c, p.potential, Len(LActiveCreatives(c)), q, cv, pv)
        remaining == LRemainingBudget(LDailyBudget(c), p.daily.spend,
                                      LTotalBudget(c, p.days), p.camp.spend)
        clicks == ScaledBy(raw.clicks, remaining, raw.spend)
    IN  /\ raw.spend > remaining
        /\ LET m == LApplyBudget(raw, remaining) IN
           run'["linkedin"].daily =
             AddMetrics(p.daily,
                [impressions |-> m.impressions, clicks |-> m.clicks,
                 conversions |-> LConversions(c, m.clicks, q), spend |-> m.spend])
        => run'["linkedin"].daily =
             AddMetrics(p.daily,
                [impressions |-> ScaledBy(raw.impressions, remaining, raw.spend),
                 clicks |-> clicks,
                 conversions |-> LConversions(c, clicks, q),
                 spend |-> remaining])
GUnitStep ==
    /\ run["google"].pc = "kw" /\ run'["google"].pc \in {"kw", "adgroup"}
    /\ run["google"].kwi <=
         Len(campaigns["google"][run["google"].ci].units[run["google"].agi].keywords)
FUnitStep ==
    /\ run["facebook"].pc = "dayloop" /\ run'["facebook"].pc = "dayloop"
    /\ run'["facebook"].day = run["facebook"].day + 1
LUnitStep ==
    /\ run["linkedin"].pc = "creative" /\ run'["linkedin"].pc = "creative"
    /\ run'["linkedin"].cri = run["linkedin"].cri + 1
C21_Scaled ==
    [][/\ GUnitStep =>
            \A u \in GImprDraws, r1 \in GRank1Draws, r2 \in GRank2Draws :
               GScaledStep(u, r1, r2)
       /\ FUnitStep =>
            \A df \in FDailyFactorDraws, iv \in FImprVarDraws, cv \in FCtrVarDraws,
               mv \in FCpmVarDraws : FScaledStep(df, iv, cv, mv)
       /\ LUnitStep =>
            \A q \in LQualityDraws, cv \in LCtrVarDraws, pv \in LCpmVarDraws :
               LScaledStep(q, cv, pv)]_vars

\* C22: in the network engine a campaign's day loop ends before the
\* requested number of days only when, at the start of a day, the cumulative
\* spend has reached total_budget, or when the day just simulated spent at
\* least 99% of daily_budget; once it has ended, the campaign's record is the
\* sum of the days simulated so far and no later day adds to it.
LCurrent == campaigns["linkedin"][run["linkedin"].ci]
LEndedEarly == run["linkedin"].pc = "store" /\ run["linkedin"].day < run["linkedin"].days
C22_DayLoop ==
    [][/\ LEndedEarly =>
            \/ LTotalStop(run["linkedin"].camp.spend,
                          LTotalBudget(LCurrent, run["linkedin"].days))
            \/ LNearlySpent(run["linkedin"].daily.spend, LDailyBudget(LCurrent))
       /\ run["linkedin"].pc = "dayend" /\ run'["linkedin"].pc = "store" =>
            LNearlySpent(run["linkedin"].daily.spend, LDailyBudget(LCurrent))
       /\ run["linkedin"].pc = "day" /\ run'["linkedin"].pc = "store" =>
            \/ run["linkedin"].day >= run["linkedin"].days
            \/ LTotalStop(run["linkedin"].camp.spend,
                          LTotalBudget(LCurrent, run["linkedin"].days))
       /\ run["linkedin"].pc = "store" =>
            /\ run'["linkedin"].pc = "campaign"
            /\ \A f \in {"impressions", "clicks", "conversions", "spend"} :
                  Entry(results'["linkedin"], LCurrent.id)[f] = run["linkedin"].camp[f]]_vars
\* A campaign halted after the first of two days, on which it had spent its
\* daily budget.
C22_Witness ==
    /\ LEndedEarly
    /\ run["linkedin"].days = 2 /\ run["linkedin"].day = 0
    /\ run["linkedin"].camp.impressions > 0
    /\ ~LTotalStop(run["linkedin"].camp.spend, LTotalBudget(LCurrent, run["linkedin"].days))

\* C23: the network engine's targeting score of every campaign it simulates
\* lies in [0.2, 1.0] (15 to 75 in 75ths): it is the populated fraction of the
\* targeting dimensions plus the multi-dimension bonus, clamped below at 0.2
\* and above at 1.0.
ClampedScore(n) == Max(15, Min((75 \div LDimensions) * n + 3 * Min(n, 5), 75))
C23_TargetingScore ==
    InLoop("linkedin", {"day", "creative", "dayend", "store"}) =>
       /\ LTargetingScore(LCurrent.data.targeting) >= 15
       /\ LTargetingScore(LCurrent.data.targeting) <= 75
       /\ LTargetingScore(LCurrent.data.targeting) = ClampedScore(LCurrent.data.targeting)

\* C24: in the reach engine, for the targeting of every ad set it simulates,
\* each of the four reach factors lies in [0, 1] (the numerators below lie
\* between 0 and their denominators 50, 2, 5 and 10), so the potential reach
\* lies between 0 and the base pool of 1,000,000.
FCurrentAdSet ==
    campaigns["facebook"][run["facebook"].ci].units[run["facebook"].si]
FCurrentTargeting == Get(FCurrentAdSet.data.targeting, FNoTargeting)
C24_ReachFactors ==
    InLoop("facebook", {"ad", "placement", "dayloop", "adsetend"}) =>
       /\ FAgeNum(FCurrentTargeting) \in 0..50
       /\ FGenderNum(FCurrentTargeting) \in 0..2
       /\ FLocationNum(FCurrentTargeting) \in 0..5
       /\ FInterestNum(FCurrentTargeting) \in 0..10
       /\ FAudienceReach(FCurrentAdSet.data) \in 0..FBaseReach

\* C25: in the reach engine an ad set's budget is consumed in simulated-day
\* order: a (ad, placement) pair is processed for a day after the first only
\* when every pair of the ad set has been processed for the days before, that
\* is when no later placement of the ad and no later eligible ad of the ad
\* set is still waiting for its first day.
FLaterPairs ==
    LET p == run["facebook"]
        a == FCurrentAdSet
    IN  \/ p.pi < Len(FPlacements(a.data))
        \/ \E k \in (p.ai + 1)..Len(a.ads) : FAdServes(a.ads[k])
C25_DayOrder ==
    [][FUnitStep /\ run["facebook"].day >= 1 => ~FLaterPairs]_vars

\* C26: a simulation started through POST /simulations eventually has a
\* terminal status at GET /simulations/{id}/status, completed or failed; a
\* task that raised after the status file said running is reported failed.
Terminal == {"completed", "failed"}
C26_Terminates == (sims.task = "pending") ~> (StatusOf(sims) \in Terminal)

\* C27: after every run of the reach engine, the first and the later ones,
\* the stored metrics of the ads of each active ad set of an active campaign
\* sum to the stored metrics of the ad set.
RECURSIVE SumAdMetrics(_)
SumAdMetrics(ads) ==
    IF ads = <<>> THEN ZeroMetrics
    ELSE AddMetrics(Head(ads).metrics, SumAdMetrics(Tail(ads)))
FRunOver == run["facebook"].pc \in {"done", "returned"}
C27_AdsSumToAdSet ==
    FRunOver =>
        \A ci \in DOMAIN campaigns["facebook"] :
            LET c == campaigns["facebook"][ci] IN
            (c.status = "active" /\ c.has_units) =>
                \A si \in DOMAIN c.units :
                    LET a == c.units[si] IN
                    a.status = "active" =>
                        SumAdMetrics(a.ads) = a.metrics

\* C28: on an engine that holds a campaign and has never run a simulation,
\* a search that selects a metrics field of the campaign resource and a
\* get_analytics over the campaigns, made within the quota and the rate
\* limits, do not raise.
NeverRun == results[sel].empty /\ campaigns[sel] # <<>>
CampaignMetricsQuery == [resource |-> "campaign", metrics |-> TRUE]
C28_ReportBeforeRun ==
    [][/\ (GCanCall /\ Searched(CampaignMetricsQuery) /\ NeverRun
             /\ ~track_api_call(api_access, now).raised) => err' = "none"
       /\ (LCanCall /\ GotAnalytics({}) /\ NeverRun
             /\ check_rate_limits(rate_limits, now).ok) => err' = "none"
      ]_vars

\* C29: of a batch passed to async_batch_update every update is reported in
\* exactly one of the lists success and failed; an update whose id matches no
\* node is reported as failed and changes nothing; an update reported as
\* success has had its change applied to the node with its id.
Count(q, x) == Cardinality({k \in DOMAIN q : q[k] = x})
Reports(r, u) == Count(r.success, BatchEntry(u)) + Count(r.failed, BatchEntry(u))
C29_Reported ==
    [][B_Resume =>
         /\ \A k \in DOMAIN batch.updates :
               LET u == batch.updates[k]
                   same == {j \in DOMAIN batch.updates :
                               BatchEntry(batch.updates[j]) = BatchEntry(u)}
               IN  /\ Reports(batch'.result, u) = Cardinality(same)
                   /\ ~Matches(campaigns[sel], u) =>
                         Count(batch'.result.failed, BatchEntry(u)) = Cardinality(same)
         /\ (\A k \in DOMAIN batch.updates : ~Matches(campaigns[sel], batch.updates[k]))
               => campaigns' = campaigns
         /\ \A k \in DOMAIN batch'.result.success :
               Matches(campaigns'[sel],
                       [type |-> batch'.result.success[k].type,
                        id |-> batch'.result.success[k].id])
      ]_vars

\* C30: in the reach engine an unset targeting dimension does not narrow
\* the reach: the ad set the run is working on, when its targeting names no
\* location or it has no targeting at all, has a positive potential reach.
FNoLocations == FCurrentTargeting.locations = 0
C30_UnsetKeepsReach ==
    (InLoop("facebook", {"ad", "placement", "dayloop", "adsetend"}) /\ FNoLocations)
        => FAudienceReach(FCurrentAdSet.data) > 0

====
